---- MODULE Spec2Model ----
(***************************************************************************)
(* Outbound network trust layer of sq-graphql-agent:                       *)
(*   - GraphQLService.validateEndpointSecurity   (graphql.service.ts)      *)
(*   - secureFetch / fetchJSON                   (graphql.service.ts)      *)
(*   - GraphQLService.fetchCidFromEndpoint       (graphql.service.ts)      *)
(*   - initializeProjectConfig                   (index.ts)                *)
(*   - fetchFromIPFS                             (utils.ts)                *)
(*                                                                         *)
(* A URL string is modelled by what the WHATWG URL parser reads from it:   *)
(* the text kind, its trimmed length, scheme, userinfo, host text and the  *)
(* explicit port.  Host texts are sequences of one-character strings so    *)
(* that the regular expressions of the source are evaluated on characters. *)
(***************************************************************************)
EXTENDS Integers, Sequences, FiniteSets, TLC

(***************************************************************************)
(* Characters and strings                                                  *)
(***************************************************************************)
Digits == {"0", "1", "2", "3", "4", "5", "6", "7", "8", "9"}

HexDigits == Digits \cup {"a", "b", "c", "d", "e", "f"}

UpperToLower ==
  ("A" :> "a") @@ ("B" :> "b") @@ ("C" :> "c") @@ ("D" :> "d") @@
  ("E" :> "e") @@ ("F" :> "f") @@ ("G" :> "g") @@ ("H" :> "h") @@
  ("I" :> "i") @@ ("L" :> "l") @@ ("M" :> "m") @@ ("N" :> "n") @@
  ("O" :> "o") @@ ("S" :> "s") @@ ("T" :> "t")

\* String.prototype.toLowerCase, character by character
toLowerCase(s) ==
  [i \in 1..Len(s) |-> IF s[i] \in DOMAIN UpperToLower THEN UpperToLower[s[i]] ELSE s[i]]

\* a regular expression anchored with ^ on a literal prefix
StartsWith(s, p) == Len(s) >= Len(p) /\ SubSeq(s, 1, Len(p)) = p

Contains(s, c) == \E i \in 1..Len(s) : s[i] = c

(***************************************************************************)
(* new URL(endpoint): the parts validateEndpointSecurity reads             *)
(***************************************************************************)
MaxUrlLength == 2048

DefaultPort(scheme) ==
  CASE scheme = "http" -> 80
    [] scheme = "https" -> 443
    [] scheme = "ftp" -> 21
    [] OTHER -> 0

\* A host text with a colon is an IPv6 literal and must be bracketed; the
\* parser rejects anything else that contains a colon (it reads a port).
HostParses(h) ==
  /\ Len(h) > 0
  /\ Contains(h, ":") => (h[1] = "[" /\ h[Len(h)] = "]")

\* parsedUrl of the source: protocol, hostname (lower-cased by the parser,
\* IPv6 literals keep their brackets), port (0 stands for the empty string:
\* no explicit port, or the scheme's default port), username, password.
\* ok is FALSE when new URL throws a TypeError.
ParseURL(u) ==
  IF u.kind # "url" \/ ~HostParses(u.host)
  THEN [ok |-> FALSE, protocol |-> "", hostname |-> <<>>, port |-> 0,
        username |-> "", password |-> ""]
  ELSE [ok |-> TRUE,
        protocol |-> u.scheme,
        hostname |-> toLowerCase(u.host),
        port     |-> IF u.port = DefaultPort(u.scheme) THEN 0 ELSE u.port,
        username |-> u.user,
        password |-> u.pass]

(***************************************************************************)
(* GraphQLService.validateEndpointSecurity                                 *)
(***************************************************************************)
blockedHosts ==
  { <<"l","o","c","a","l","h","o","s","t">>,
    <<"1","2","7",".","0",".","0",".","1">>,
    <<"0",".","0",".","0",".","0">>,
    <<":",":","1">>,
    <<"1","6","9",".","2","5","4",".","1","6","9",".","2","5","4">>,
    <<"m","e","t","a","d","a","t","a",".","g","o","o","g","l","e",".",
      "i","n","t","e","r","n","a","l">> }

\* /^172\.(1[6-9]|2[0-9]|3[0-1])\./
Matches172(h) ==
  /\ Len(h) >= 7
  /\ SubSeq(h, 1, 4) = <<"1","7","2",".">>
  /\ \/ h[5] = "1" /\ h[6] \in {"6", "7", "8", "9"}
     \/ h[5] = "2" /\ h[6] \in Digits
     \/ h[5] = "3" /\ h[6] \in {"0", "1"}
  /\ h[7] = "."

\* /^fc[0-9a-f]{2}:/i and /^fd[0-9a-f]{2}:/i
MatchesUla(h, second) ==
  /\ Len(h) >= 5
  /\ toLowerCase(SubSeq(h, 1, 2)) = <<"f", second>>
  /\ toLowerCase(<<h[3]>>)[1] \in HexDigits
  /\ toLowerCase(<<h[4]>>)[1] \in HexDigits
  /\ h[5] = ":"

privateIpPatterns(h) ==
  \/ StartsWith(h, <<"1","0",".">>)
  \/ Matches172(h)
  \/ StartsWith(h, <<"1","9","2",".","1","6","8",".">>)
  \/ StartsWith(h, <<"1","2","7",".">>)
  \/ StartsWith(h, <<"1","6","9",".","2","5","4",".">>)
  \/ MatchesUla(h, "c")
  \/ MatchesUla(h, "d")
  \/ StartsWith(toLowerCase(h), <<"f","e","8","0",":">>)
  \/ h = <<":",":","1">>
  \/ h = <<":",":">>

allowedPorts == {80, 443, 8080, 8443}

SystemPortLimit == 1024

PortNotAllowed_LimitIncluded(port) ==
  port # 0 /\ port \notin allowedPorts /\ port <= SystemPortLimit

\* the port check of step 7; port 0 is the empty port string
PortNotAllowed(port) ==
  port # 0 /\ port \notin allowedPorts /\ port < SystemPortLimit

HasCredentials_PasswordOnly(p) == p.password # ""

HasCredentials(p) == p.username # "" \/ p.password # ""

\* if (!this.allowLocalhost && blockedHosts.includes(hostname))
BlockedHostCheck(hostname, allowLocalhost) ==
  ~allowLocalhost /\ hostname \in blockedHosts

PrivateIpCheck_IgnoresFlag(hostname, allowLocalhost) ==
  privateIpPatterns(hostname)

\* if (!this.allowLocalhost) for (pattern of privateIpPatterns) pattern.test
PrivateIpCheck(hostname, allowLocalhost) ==
  ~allowLocalhost /\ privateIpPatterns(hostname)

validateEndpointSecurity_CredentialsBeforePort(endpoint, allowLocalhost) ==
  IF endpoint.kind = "empty" THEN "Invalid endpoint format"
  ELSE IF endpoint.len > MaxUrlLength THEN "Endpoint URL too long"
  ELSE LET parsedUrl == ParseURL(endpoint) IN
    IF ~parsedUrl.ok THEN "Invalid endpoint URL"
    ELSE IF parsedUrl.protocol \notin {"http", "https"}
      THEN "Only HTTP/HTTPS protocols are allowed"
    ELSE IF BlockedHostCheck(parsedUrl.hostname, allowLocalhost)
      THEN "Access to local/internal hosts is forbidden"
    ELSE IF PrivateIpCheck(parsedUrl.hostname, allowLocalhost)
      THEN "Access to private IP ranges is forbidden"
    ELSE IF HasCredentials(parsedUrl) THEN "URL should not contain credentials"
    ELSE IF PortNotAllowed(parsedUrl.port) THEN "Port not allowed"
    ELSE "OK"

\* The result is "OK" when the method returns normally and the message of
\* the Error it throws otherwise.  endpoint.len is the length after trim().
validateEndpointSecurity(endpoint, allowLocalhost) ==
  IF endpoint.kind = "empty" THEN "Invalid endpoint format"
  ELSE IF endpoint.len > MaxUrlLength THEN "Endpoint URL too long"
  ELSE LET parsedUrl == ParseURL(endpoint) IN
    IF ~parsedUrl.ok THEN "Invalid endpoint URL"
    ELSE IF parsedUrl.protocol \notin {"http", "https"}
      THEN "Only HTTP/HTTPS protocols are allowed"
    ELSE IF BlockedHostCheck(parsedUrl.hostname, allowLocalhost)
      THEN "Access to local/internal hosts is forbidden"
    ELSE IF PrivateIpCheck(parsedUrl.hostname, allowLocalhost)
      THEN "Access to private IP ranges is forbidden"
    ELSE IF PortNotAllowed(parsedUrl.port) THEN "Port not allowed"
    ELSE IF HasCredentials(parsedUrl) THEN "URL should not contain credentials"
    ELSE "OK"

(***************************************************************************)
(* URL texts                                                               *)
(***************************************************************************)
HostExample == <<"e","x","a","m","p","l","e",".","c","o","m">>
HostLocalhost == <<"l","o","c","a","l","h","o","s","t">>
HostLocalhostUpper == <<"L","O","C","A","L","H","O","S","T">>
HostLoopback == <<"1","2","7",".","0",".","0",".","1">>
HostLoopback2 == <<"1","2","7",".","0",".","0",".","2">>
HostAny == <<"0",".","0",".","0",".","0">>
HostAwsMetadata == <<"1","6","9",".","2","5","4",".","1","6","9",".","2","5","4">>
HostGcpMetadata ==
  <<"m","e","t","a","d","a","t","a",".","g","o","o","g","l","e",".",
    "i","n","t","e","r","n","a","l">>
HostTen == <<"1","0",".","0",".","0",".","5">>
Host172Private == <<"1","7","2",".","1","6",".","0",".","1">>
Host172Public == <<"1","7","2",".","3","2",".","0",".","1">>
Host192 == <<"1","9","2",".","1","6","8",".","1",".","1">>
HostPublicIp == <<"8",".","8",".","8",".","8">>
HostV6Loopback == <<"[",":",":","1","]">>
HostV6Unspecified == <<"[",":",":","]">>
HostV6LinkLocal == <<"[","f","e","8","0",":",":","1","]">>
HostV6LinkLocalUpper == <<"[","F","E","8","0",":",":","1","]">>
HostV6Ula == <<"[","f","c","0","0",":",":","1","]">>
HostV6Bare == <<":",":","1">>

Url(scheme, user, pass, host, port, len) ==
  [kind |-> "url", scheme |-> scheme, user |-> user, pass |-> pass,
   host |-> host, port |-> port, len |-> len]

\* '' , a string of white space, and a text that is no URL
NonUrl(kind, len) ==
  [kind |-> kind, scheme |-> "", user |-> "", pass |-> "", host |-> <<>>,
   port |-> 0, len |-> len]

ShortLen == 40

ValidatorHosts ==
  { HostExample, HostLocalhost, HostLocalhostUpper, HostLoopback, HostLoopback2,
    HostAny, HostAwsMetadata, HostGcpMetadata, HostTen, Host172Private,
    Host172Public, Host192, HostPublicIp, HostV6Loopback, HostV6Unspecified,
    HostV6LinkLocal, HostV6LinkLocalUpper, HostV6Ula, HostV6Bare }

ValidatorPorts == {0, 22, 80, 443, 1023, 1024, 8080}

ValidatorLens == {ShortLen, MaxUrlLength, MaxUrlLength + 1}

ValidatorEndpoints ==
  { Url(s, c[1], c[2], h, p, l) :
      s \in {"http", "https", "ftp"},
      c \in {<<"", "">>, <<"u", "">>, <<"", "p">>, <<"u", "p">>},
      h \in ValidatorHosts, p \in ValidatorPorts, l \in ValidatorLens }
  \cup { NonUrl("empty", 0), NonUrl("blank", 0),
         NonUrl("garbage", ShortLen), NonUrl("garbage", MaxUrlLength + 1) }

(***************************************************************************)
(* State                                                                   *)
(***************************************************************************)
VARIABLES
  \* one call of validateEndpointSecurity
  vEndpoint, vAllowLocalhost, vResult,
  \* one call of fetchFromIPFS
  ipfsConfig, gatewayPool, attempt, errors, ipfsMain, ipfsResult,
  ipfsRequests, settleOrder,
  \* one GraphQLService instance and its caller
  caller,          \* "initializeProjectConfig" or "direct" (the exported class)
  allowLocalhost,  \* constructor argument
  endpoint,        \* config.endpoint, also the argument of fetchCidFromEndpoint
  authorization,   \* config.authorization ("" when not configured)
  pc,              \* where the caller's async flow stands
  op,              \* the GraphQLService method in progress
  shape,           \* metadata shape being queried: "A" or "B"
  currentUrl, redirectCount,   \* locals of secureFetch
  inflight, follows,           \* the runtime's fetch: URL requested, redirects followed
  acceptedUrls,    \* URLs validateEndpointSecurity has returned normally for
  lastRequest,     \* the HTTP request sent last
  callRequests,    \* HTTP requests sent since the method in progress was called
  violation,       \* message of the security error a redirect target raised
  tried,           \* what each metadata shape's try block came to
  cidOutcome, cidError,        \* how fetchCidFromEndpoint ended
  opOutcome,       \* how execute / fetchIntrospectionSchema ended
  config,          \* config / enriched of initializeProjectConfig
  initOutcome,     \* how initializeProjectConfig ended
  \* one secureFetch call: its locals, its timer, and what it has sent
  sf,
  \* one GraphQLService instance used by concurrent callers
  introspectionSchema,  \* config.introspectionSchema
  schemaCache,          \* the entry of schemaCache under cacheKey()
  nextSchema,           \* identity of the next object buildClientSchema returns
  calls,                \* the calls made on the instance
  completed,            \* the calls that have settled, in order
  \* one call of GraphQLService.execute, that is of fetchJSON
  fj,
  \* the CID taken from one shape A response
  cx,
  \* one invocation of the validate-and-execute tool
  tool,
  \* one call of buildSystemPrompt
  prompt,
  \* one call of initializeProjectConfig, enrichGraphQLConfig step by step
  pj

validatorVars == <<vEndpoint, vAllowLocalhost, vResult>>

ipfsVars ==
  <<ipfsConfig, gatewayPool, attempt, errors, ipfsMain, ipfsResult,
    ipfsRequests, settleOrder>>

fetchVars ==
  <<pc, op, shape, currentUrl, redirectCount, inflight, follows, acceptedUrls,
    lastRequest, callRequests, violation, tried, cidOutcome, cidError,
    opOutcome>>

serviceVars ==
  <<caller, allowLocalhost, endpoint, authorization, fetchVars, config,
    initOutcome>>

secureFetchVars == <<sf>>

schemaVars == <<introspectionSchema, schemaCache, nextSchema, calls, completed>>

executeVars == <<fj>>

cidVars == <<cx>>

toolVars == <<tool>>

promptVars == <<prompt>>

projectVars == <<pj>>

vars ==
  <<validatorVars, ipfsVars, serviceVars, secureFetchVars, schemaVars,
    executeVars, cidVars, toolVars, promptVars, projectVars>>

\* what a step of one component leaves alone
nonValidatorVars ==
  <<ipfsVars, serviceVars, secureFetchVars, schemaVars, executeVars, cidVars,
    toolVars,
    promptVars, projectVars>>

nonIpfsVars ==
  <<validatorVars, serviceVars, secureFetchVars, schemaVars, executeVars,
    cidVars, toolVars,
    promptVars, projectVars>>

nonServiceVars ==
  <<validatorVars, ipfsVars, secureFetchVars, schemaVars, executeVars, cidVars,
    toolVars,
    promptVars, projectVars>>

nonSecureFetchVars ==
  <<validatorVars, ipfsVars, serviceVars, schemaVars, executeVars, cidVars,
    toolVars,
    promptVars, projectVars>>

nonSchemaVars ==
  <<validatorVars, ipfsVars, serviceVars, secureFetchVars, executeVars,
    cidVars, toolVars,
    promptVars, projectVars>>

nonExecuteVars ==
  <<validatorVars, ipfsVars, serviceVars, secureFetchVars, schemaVars, cidVars,
    toolVars,
    promptVars, projectVars>>

nonCidVars ==
  <<validatorVars, ipfsVars, serviceVars, secureFetchVars, schemaVars,
    executeVars, toolVars,
    promptVars, projectVars>>

nonPromptVars ==
  <<validatorVars, ipfsVars, serviceVars, secureFetchVars, schemaVars,
    executeVars, cidVars, toolVars, projectVars>>

nonProjectVars ==
  <<validatorVars, ipfsVars, serviceVars, secureFetchVars, schemaVars,
    executeVars, cidVars, toolVars, promptVars>>

\* the tool works on the service's schema state
nonToolVars ==
  <<validatorVars, ipfsVars, serviceVars, secureFetchVars, executeVars,
    cidVars,
    promptVars, projectVars>>

(***************************************************************************)
(* validateEndpointSecurity called on one endpoint                         *)
(***************************************************************************)
ValidatorIdle ==
  /\ vEndpoint = NonUrl("empty", 0)
  /\ vAllowLocalhost = TRUE
  /\ vResult = "pending"

ValidatorInit ==
  /\ vEndpoint \in ValidatorEndpoints
  /\ vAllowLocalhost \in BOOLEAN
  /\ vResult = "pending"

ValidateCall ==
  /\ vResult = "pending"
  /\ vResult' = validateEndpointSecurity(vEndpoint, vAllowLocalhost)
  /\ UNCHANGED <<vEndpoint, vAllowLocalhost>>
  /\ UNCHANGED nonValidatorVars

(***************************************************************************)
(* fetchFromIPFS (utils.ts)                                                *)
(***************************************************************************)
MaxGateways == 3

IPFS_GATEWAY_POOL ==
  << [url |-> [host |-> "unauthipfs.subquery.network", id |-> 0], method |-> "POST"],
     [url |-> [host |-> "ipfs.thegraph.com", id |-> 0], method |-> "GET"] >>

\* the arrays an IPFS_CONFIG value can parse to
EnvPool(n) ==
  [i \in 1..n |-> [url |-> [host |-> "gateway.env", id |-> i],
                   method |-> IF i % 2 = 1 THEN "GET" ELSE "POST"]]

IpfsConfigs ==
  { [kind |-> "unset", pool |-> <<>>], [kind |-> "malformed", pool |-> <<>>] }
  \cup { [kind |-> "array", pool |-> EnvPool(n)] : n \in 0..MaxGateways }

\* let gatewayPool = IPFS_GATEWAY_POOL; if (process.env.IPFS_CONFIG) try
\* { gatewayPool = JSON.parse(...) } catch {}
SelectPool_MalformedIsEmpty(cfg) ==
  CASE cfg.kind = "array" -> cfg.pool
    [] cfg.kind = "malformed" -> <<>>
    [] OTHER -> IPFS_GATEWAY_POOL

SelectPool(cfg) ==
  IF cfg.kind = "array" THEN cfg.pool ELSE IPFS_GATEWAY_POOL

Gateways == 1..Len(gatewayPool)

Settled(a) == a.state \in {"fulfilled", "rejected"}

NoUrl == [host |-> "", id |-> 0]

NoError == [text |-> "", status |-> 0]

IdleAttempt ==
  [state |-> "idle", timer |-> "none", elapsed |-> FALSE, status |-> 0,
   reason |-> NoError, body |-> NoUrl]

IpfsIdle ==
  /\ ipfsConfig = [kind |-> "unset", pool |-> <<>>]
  /\ gatewayPool = <<>>
  /\ attempt = <<>>
  /\ errors = <<>>
  /\ ipfsMain = "idle"
  /\ ipfsResult = [kind |-> "none"]
  /\ ipfsRequests = <<>>
  /\ settleOrder = <<>>

IpfsInit ==
  /\ ipfsConfig \in IpfsConfigs
  /\ gatewayPool = <<>>
  /\ attempt = <<>>
  /\ errors = <<>>
  /\ ipfsMain = "idle"
  /\ ipfsResult = [kind |-> "none"]
  /\ ipfsRequests = <<>>
  /\ settleOrder = <<>>

\* fetchFromIPFS up to its first await: the pool is chosen and map() starts
\* every gateway's callback, each running to its fetch (fetchWithTimeout arms
\* the attempt's timer and issues the request).
FetchFromIPFS ==
  /\ ipfsMain = "idle"
  /\ LET pool == SelectPool(ipfsConfig) IN
       /\ gatewayPool' = pool
       /\ attempt' = [i \in 1..Len(pool) |->
                        [IdleAttempt EXCEPT !.state = "fetching", !.timer = "armed"]]
       /\ ipfsRequests' = [i \in 1..Len(pool) |->
                             [url |-> pool[i].url, method |-> pool[i].method]]
  /\ ipfsMain' = "racing"
  /\ UNCHANGED <<ipfsConfig, errors, ipfsResult, settleOrder>>
  /\ UNCHANGED nonIpfsVars

GatewayStatuses == {200, 404, 503}

Ok_RedirectsIncluded(status) == status >= 200 /\ status <= 399

\* response.ok
Ok(status) == status >= 200 /\ status <= 299

MainAfterSettle_AwaitsAll(main, fulfilled, allSettled) ==
  CASE main = "racing" /\ fulfilled /\ allSettled -> "resolved"
    [] main = "racing" /\ ~fulfilled -> IF allSettled THEN "rejected" ELSE "waitingAll"
    [] main = "waitingAll" -> IF allSettled THEN "rejected" ELSE "waitingAll"
    [] OTHER -> main

MainAfterSettle_NoAllSettled(main, fulfilled, allSettled) ==
  CASE main = "racing" /\ fulfilled -> "resolved"
    [] main = "racing" /\ ~fulfilled -> "rejected"
    [] OTHER -> main

\* try { return await Promise.race(fetchPromises) } catch { await
\* Promise.allSettled(fetchPromises); throw ... }: where fetchFromIPFS stands
\* once an attempt has settled.  Promise.race settles as the first attempt
\* to settle does; after a rejection the function waits for every attempt.
MainAfterSettle(main, fulfilled, allSettled) ==
  CASE main = "racing" /\ fulfilled -> "resolved"
    [] main = "racing" /\ ~fulfilled -> IF allSettled THEN "rejected" ELSE "waitingAll"
    [] main = "waitingAll" -> IF allSettled THEN "rejected" ELSE "waitingAll"
    [] OTHER -> main

\* attempt i settles as newAttempt after pushing `pushed` onto errors; the
\* continuation of fetchFromIPFS runs in the same turn of the event loop
Settle(i, newAttempt, pushed) ==
  LET att2 == [attempt EXCEPT ![i] = newAttempt]
      errs2 == errors \o pushed
      all == \A j \in Gateways : Settled(att2[j])
      m2 == MainAfterSettle(ipfsMain, newAttempt.state = "fulfilled", all)
  IN /\ attempt' = att2
     /\ errors' = errs2
     /\ settleOrder' = Append(settleOrder, i)
     /\ ipfsMain' = m2
     /\ ipfsResult' =
          IF m2 = ipfsMain THEN ipfsResult
          ELSE IF m2 = "resolved" THEN [kind |-> "body", body |-> newAttempt.body]
          ELSE IF m2 = "rejected"
            THEN [kind |-> "error", tried |-> Len(errs2), summary |-> errs2]
          ELSE ipfsResult
     /\ UNCHANGED <<ipfsConfig, gatewayPool, ipfsRequests>>
     /\ UNCHANGED nonIpfsVars

\* fetch rejects (connection failure): finally clears the timer, the catch
\* of the callback records the error and rethrows
FetchRejects(i) ==
  /\ attempt[i].state = "fetching"
  /\ LET reason == [text |-> "fetch failed", status |-> 0] IN
       Settle(i, [attempt[i] EXCEPT !.state = "rejected", !.timer = "cleared",
                                     !.reason = reason],
              << [url |-> gatewayPool[i].url, error |-> reason] >>)

\* the 30 s timer of fetchWithTimeout fires while fetch is pending:
\* controller.abort() makes fetch reject
TimerFires(i) ==
  /\ attempt[i].state = "fetching"
  /\ attempt[i].timer = "armed"
  /\ LET reason == [text |-> "This operation was aborted", status |-> 0] IN
       Settle(i, [attempt[i] EXCEPT !.state = "rejected", !.timer = "fired",
                                     !.elapsed = TRUE, !.reason = reason],
              << [url |-> gatewayPool[i].url, error |-> reason] >>)

\* fetch resolves with the response (status line and headers); finally
\* clears the timer; the callback goes on to await response.text()
HeadersArrive(i, status) ==
  /\ attempt[i].state = "fetching"
  /\ attempt' = [attempt EXCEPT ![i].state = "readingBody",
                                 ![i].timer = "cleared",
                                 ![i].status = status]
  /\ UNCHANGED <<ipfsConfig, gatewayPool, errors, ipfsMain, ipfsResult,
                 ipfsRequests, settleOrder>>
  /\ UNCHANGED nonIpfsVars

\* FETCH_TIMEOUT_MS pass after the attempt's fetch call while the body is
\* awaited: the timer was cleared when the headers arrived, nothing runs
TimeoutElapses(i) ==
  /\ attempt[i].state = "readingBody"
  /\ attempt[i].timer = "cleared"
  /\ ~attempt[i].elapsed
  /\ attempt' = [attempt EXCEPT ![i].elapsed = TRUE]
  /\ UNCHANGED <<ipfsConfig, gatewayPool, errors, ipfsMain, ipfsResult,
                 ipfsRequests, settleOrder>>
  /\ UNCHANGED nonIpfsVars

\* response.text() resolves: a 2xx body is returned; for any other status
\* the callback pushes the error, throws it, and its own catch pushes again
BodyArrives(i) ==
  /\ attempt[i].state = "readingBody"
  /\ IF Ok(attempt[i].status)
     THEN Settle(i, [attempt[i] EXCEPT !.state = "fulfilled",
                                        !.body = gatewayPool[i].url], <<>>)
     ELSE LET reason == [text |-> "responded with", status |-> attempt[i].status]
              entry == [url |-> gatewayPool[i].url, error |-> reason]
          IN Settle(i, [attempt[i] EXCEPT !.state = "rejected", !.reason = reason],
                    <<entry, entry>>)

\* response.text() rejects (the connection breaks during the body)
BodyFails(i) ==
  /\ attempt[i].state = "readingBody"
  /\ LET reason == [text |-> "terminated", status |-> 0] IN
       Settle(i, [attempt[i] EXCEPT !.state = "rejected", !.reason = reason],
              << [url |-> gatewayPool[i].url, error |-> reason] >>)

IpfsNext ==
  \/ FetchFromIPFS
  \/ \E i \in Gateways : FetchRejects(i)
  \/ \E i \in Gateways : TimerFires(i)
  \/ \E i \in Gateways, status \in GatewayStatuses : HeadersArrive(i, status)
  \/ \E i \in Gateways : TimeoutElapses(i)
  \/ \E i \in Gateways : BodyArrives(i)
  \/ \E i \in Gateways : BodyFails(i)

(***************************************************************************)
(* The runtime's fetch, as secureFetch and fetchJSON call it               *)
(***************************************************************************)
\* Both call fetch(url, {method, headers, body, signal}): no redirect option,
\* so the request's redirect mode is the Fetch default, "follow".  A response
\* with one of these statuses and a Location header is then followed by the
\* runtime itself and never handed to the caller.
FollowedStatuses == {301, 302, 303, 307, 308}

\* redirects the runtime follows within one fetch call (the runtime: 20)
MaxFollow == 1

ResponseStatuses == {200, 300, 302, 500}

\* the URL text as new URL(...).toString() writes it
Serialize(u) ==
  [u EXCEPT !.host = toLowerCase(u.host),
            !.port = IF u.port = DefaultPort(u.scheme) THEN 0 ELSE u.port]

NoLocation == [kind |-> "none", url |-> NonUrl("empty", 0), len |-> 0]

\* new URL(redirectUrl, currentUrl).toString(): an absolute Location stands
\* for itself, a relative one keeps the base's scheme, userinfo, host and
\* port; ok is FALSE when the constructor throws
ResolveUrl(loc, base) ==
  CASE loc.kind = "absolute" ->
         [ok |-> ParseURL(loc.url).ok, url |-> Serialize(loc.url)]
    [] loc.kind = "relative" ->
         [ok |-> TRUE, url |-> [Serialize(base) EXCEPT !.len = loc.len]]
    [] OTHER -> [ok |-> FALSE, url |-> base]

\* ports the runtime's fetch refuses to connect to (those below 1024)
FetchBadPorts ==
  {1, 7, 9, 11, 13, 15, 17, 19, 20, 21, 22, 23, 25, 37, 42, 43, 53, 69, 77, 79,
   87, 95, 101, 102, 103, 104, 109, 110, 111, 113, 115, 117, 119, 123, 135,
   137, 139, 143, 161, 179, 389, 427, 465, 512, 513, 514, 515, 526, 530, 531,
   532, 540, 548, 554, 556, 563, 587, 601, 636, 989, 990, 993, 995}

\* fetch sends a request only to an http(s) URL without credentials and
\* without a port it refuses; for any other URL it rejects
Fetchable(u) ==
  /\ ParseURL(u).ok
  /\ u.scheme \in {"http", "https"}
  /\ u.user = "" /\ u.pass = ""
  /\ u.port \notin FetchBadPorts

(***************************************************************************)
(* GraphQLService: inputs                                                  *)
(***************************************************************************)
UrlPublic == Url("https", "", "", HostExample, 0, ShortLen)
UrlPublic2 == Url("https", "", "", HostPublicIp, 0, ShortLen)
UrlLocalhost == Url("http", "", "", HostLocalhost, 3000, ShortLen)
UrlMetadata == Url("http", "", "", HostAwsMetadata, 0, ShortLen)
UrlCredentials == Url("https", "u", "p", HostExample, 0, ShortLen)
UrlPort22 == Url("http", "", "", HostExample, 22, ShortLen)

ServiceEndpoints ==
  { UrlPublic, UrlLocalhost, UrlCredentials, UrlPort22, NonUrl("empty", 0) }

Locations ==
  { [kind |-> "absolute", url |-> u, len |-> u.len] :
      u \in {UrlPublic2, UrlMetadata, UrlCredentials} }
  \cup { [kind |-> "relative", url |-> NonUrl("empty", 0), len |-> ShortLen],
         [kind |-> "invalid", url |-> NonUrl("garbage", ShortLen), len |-> ShortLen] }

\* what a server answers: status line, Location header, and what comes of
\* reading the body ("cid": JSON with the queried CID field, "nocid": any
\* other text, "oversize": more bytes than maxContentLength).  The body of a
\* response with a Location header is not told apart, no caller reads it.
Responses ==
  [status : ResponseStatuses, location : {NoLocation},
   body : {"cid", "nocid", "oversize"}]
  \cup [status : {300, 302}, location : Locations, body : {"nocid"}]

\* handed to the caller of fetch: everything the runtime does not follow
HandedToCaller(resp) ==
  ~(resp.status \in FollowedStatuses /\ resp.location.kind # "none")

\* config.authorization: not configured, or a token
Authorizations == {"", "Bearer token"}

\* the headers of a request that the claims speak of; "" is an absent header
NoHeaders == [contentType |-> "", userAgent |-> "", authorization |-> ""]

\* createSecureRequestHeaders(): passed to secureFetch, which hands them to
\* fetch as they are
createSecureRequestHeaders(auth) ==
  [contentType |-> "application/json",
   userAgent |-> "SubQuery-MCP-Service/1.0",
   authorization |-> auth]

\* buildHeaders(): Authorization when configured, nothing else
buildHeaders(auth) == [NoHeaders EXCEPT !.authorization = auth]

\* fetchJSON: headers: {'Content-Type': 'application/json', ...headers}
FetchJSONHeaders(headers) == [headers EXCEPT !.contentType = "application/json"]

\* the runtime's fetch supplies its own User-Agent when the caller gives none
RuntimeUserAgent == "node"

OnTheWire(headers) ==
  IF headers.userAgent = "" THEN [headers EXCEPT !.userAgent = RuntimeUserAgent]
  ELSE headers

SameOrigin(u, v) ==
  /\ u.scheme = v.scheme
  /\ toLowerCase(u.host) = toLowerCase(v.host)
  /\ ParseURL(u).port = ParseURL(v).port

\* a request the runtime sends for a redirect it follows repeats the headers
\* of the request redirected, without Authorization when the origin changes
RedirectedHeaders(headers, from, to) ==
  IF SameOrigin(from, to) THEN headers ELSE [headers EXCEPT !.authorization = ""]

NoRequest ==
  [url |-> NonUrl("empty", 0), op |-> "none", shape |-> "none", by |-> "none",
   accepted |-> TRUE, afterViolation |-> FALSE, headers |-> NoHeaders]

Request(u, o, sh, by, acc, viol, h) ==
  [url |-> u, op |-> o, shape |-> sh, by |-> by, accepted |-> u \in acc,
   afterViolation |-> viol # "", headers |-> h]

\* the local cid after each shape's try block: not reached, request
\* outstanding, a non-empty CID, or none
Untried == [A |-> "untried", B |-> "untried"]

(***************************************************************************)
(* The error messages, word by word, for String.prototype.includes         *)
(***************************************************************************)
MessageWords(msg) ==
  CASE msg = "Invalid endpoint format" -> <<"Invalid", "endpoint", "format">>
    [] msg = "Endpoint URL too long" -> <<"Endpoint", "URL", "too", "long">>
    [] msg = "Invalid endpoint URL" -> <<"Invalid", "endpoint", "URL">>
    [] msg = "Only HTTP/HTTPS protocols are allowed" ->
         <<"Only", "HTTP/HTTPS", "protocols", "are", "allowed">>
    [] msg = "Access to local/internal hosts is forbidden" ->
         <<"Access", "to", "local/internal", "hosts", "is", "forbidden">>
    [] msg = "Access to private IP ranges is forbidden" ->
         <<"Access", "to", "private", "IP", "ranges", "is", "forbidden">>
    [] msg = "Port not allowed" -> <<"Port", "not", "allowed">>
    [] msg = "URL should not contain credentials" ->
         <<"URL", "should", "not", "contain", "credentials">>
    [] OTHER -> <<>>

\* message.includes(part)
Includes(words, part) ==
  \E i \in 0..(Len(words) - Len(part)) :
    SubSeq(words, i + 1, i + Len(part)) = part

SecurityMarker == <<"Security", "validation", "failed">>

(***************************************************************************)
(* secureFetch and fetchCidFromEndpoint                                    *)
(***************************************************************************)
MaxRedirects == 3

\* the variables the GraphQLService methods work on, as one record
Now ==
  [pc |-> pc, op |-> op, shape |-> shape, currentUrl |-> currentUrl,
   redirectCount |-> redirectCount, inflight |-> inflight, follows |-> follows,
   acceptedUrls |-> acceptedUrls, lastRequest |-> lastRequest,
   callRequests |-> callRequests, violation |-> violation, tried |-> tried,
   cidOutcome |-> cidOutcome, cidError |-> cidError, opOutcome |-> opOutcome]

Becomes(S) ==
  /\ pc' = S.pc /\ op' = S.op /\ shape' = S.shape
  /\ currentUrl' = S.currentUrl /\ redirectCount' = S.redirectCount
  /\ inflight' = S.inflight /\ follows' = S.follows
  /\ acceptedUrls' = S.acceptedUrls /\ lastRequest' = S.lastRequest
  /\ callRequests' = S.callRequests /\ violation' = S.violation
  /\ tried' = S.tried
  /\ cidOutcome' = S.cidOutcome /\ cidError' = S.cidError
  /\ opOutcome' = S.opOutcome

\* fetch(url, ...) is called and the request goes out
SendRequest(S, url, by) ==
  [S EXCEPT !.inflight = url,
            !.lastRequest =
               Request(url, S.op, S.shape, by, S.acceptedUrls, S.violation,
                       CASE by = "secureFetch" ->
                              OnTheWire(createSecureRequestHeaders(authorization))
                         [] by = "fetchJSON" ->
                              OnTheWire(FetchJSONHeaders(buildHeaders(authorization)))
                         [] OTHER -> RedirectedHeaders(S.lastRequest.headers,
                                                       S.inflight, url)),
            !.callRequests = S.callRequests + 1]

\* fetchCidFromEndpoint returns or throws; initializeProjectConfig awaits it
ReturnCid(S, outcome, err) ==
  [S EXCEPT !.pc = IF caller = "initializeProjectConfig" THEN "cidReturned" ELSE "idle",
            !.op = "none", !.cidOutcome = outcome, !.cidError = err,
            !.shape = "none", !.currentUrl = NonUrl("empty", 0),
            !.redirectCount = 0, !.inflight = NonUrl("empty", 0), !.follows = 0]

\* secureFetch(endpoint, query, options) up to its first await
StartShape(S, sh) ==
  SendRequest([S EXCEPT !.pc = "secureFetch", !.shape = sh,
                        !.tried[sh] = "pending",
                        !.currentUrl = endpoint, !.redirectCount = 0,
                        !.follows = 0],
              endpoint, "secureFetch")

ShapeEnds_QueriesBothShapes(S, found) ==
  LET S1 == [S EXCEPT !.tried[S.shape] = IF found THEN "cid" ELSE "none"] IN
    IF S.shape = "A" THEN StartShape(S1, "B")
    ELSE IF found THEN ReturnCid(S1, "cid", "")
    ELSE ReturnCid(S1, "empty", "")

ShapeEnds_NoCidThrows(S, found) ==
  LET S1 == [S EXCEPT !.tried[S.shape] = IF found THEN "cid" ELSE "none"] IN
    IF found THEN ReturnCid(S1, "cid", "")
    ELSE IF S.shape = "A" THEN StartShape(S1, "B")
    ELSE ReturnCid(S1, "throws", "No valid CID found")

\* a shape's try block ends: with a CID the method returns it, without one
\* (or after a throw, which the shape's catch only logs) shape A is followed
\* by shape B and shape B by the return of ''
ShapeEnds(S, found) ==
  LET S1 == [S EXCEPT !.tried[S.shape] = IF found THEN "cid" ELSE "none"] IN
    IF found THEN ReturnCid(S1, "cid", "")
    ELSE IF S.shape = "A" THEN StartShape(S1, "B")
    ELSE ReturnCid(S1, "empty", "")

\* the outer catch: rethrow when the message includes 'Security validation
\* failed', return '' otherwise
OuterCatch(S, msg) ==
  IF Includes(MessageWords(msg), SecurityMarker)
  THEN ReturnCid(S, "throws", msg)
  ELSE ReturnCid(S, "empty", "")

\* fetchCidFromEndpoint(endpoint) up to its first await
FetchCidStart(S) ==
  LET v == validateEndpointSecurity(endpoint, allowLocalhost)
      S1 == [S EXCEPT !.op = "fetchCid", !.callRequests = 0, !.violation = "",
                      !.tried = Untried,
                      !.cidOutcome = "pending", !.cidError = ""]
  IN IF v # "OK" THEN OuterCatch(S1, v)
     ELSE StartShape([S1 EXCEPT !.acceptedUrls = @ \cup {endpoint}], "A")

\* secureFetch from the arrival of a response to its next await or its end
SecureFetchOnResponse(S, resp) ==
  IF resp.status >= 300 /\ resp.status < 400 /\ resp.location.kind # "none"
  THEN LET count == S.redirectCount + 1
           absoluteUrl == ResolveUrl(resp.location, S.currentUrl)
           v == validateEndpointSecurity(absoluteUrl.url, allowLocalhost)
       IN IF count > MaxRedirects THEN ShapeEnds(S, FALSE)
          ELSE IF ~absoluteUrl.ok THEN ShapeEnds(S, FALSE)
          ELSE IF v # "OK" THEN ShapeEnds([S EXCEPT !.violation = v], FALSE)
          ELSE SendRequest([S EXCEPT !.redirectCount = count,
                                     !.currentUrl = absoluteUrl.url,
                                     !.acceptedUrls = @ \cup {absoluteUrl.url},
                                     !.follows = 0],
                           absoluteUrl.url, "secureFetch")
  ELSE IF resp.body = "oversize" THEN ShapeEnds(S, FALSE)
  ELSE IF ~Ok(resp.status) THEN ShapeEnds(S, FALSE)
  ELSE ShapeEnds(S, resp.body = "cid")

(***************************************************************************)
(* fetchJSON, execute and fetchIntrospectionSchema                         *)
(***************************************************************************)
\* fetchJSON settles; enrichGraphQLConfig, which awaits the introspection in
\* a try of its own, goes on to return and initializeProjectConfig to save
FetchJSONEnds(S, outcome) ==
  [S EXCEPT !.pc = IF caller = "initializeProjectConfig" THEN "save" ELSE "idle",
            !.op = "none", !.opOutcome = outcome,
            !.inflight = NonUrl("empty", 0), !.follows = 0]

\* execute(query) / fetchIntrospectionSchema(): fetchJSON(this.config.endpoint,
\* ...) up to its first await; no validation precedes the fetch
FetchJSONStart(S, o) ==
  LET S1 == [S EXCEPT !.pc = "fetchJSON", !.op = o, !.shape = "none",
                      !.callRequests = 0, !.follows = 0, !.opOutcome = "pending"]
  IN IF Fetchable(endpoint) THEN SendRequest(S1, endpoint, "fetchJSON")
     ELSE FetchJSONEnds(S1, "rejected")

\* fetchJSON from the arrival of the response: the text is read whatever its
\* size, parsed if it is JSON, and a status that is not 2xx throws
FetchJSONOnResponse(S, resp) ==
  FetchJSONEnds(S, IF Ok(resp.status) THEN "resolved" ELSE "rejected")

(***************************************************************************)
(* The caller: initializeProjectConfig, or a client of the exported class  *)
(***************************************************************************)
MinimalConfig ==
  [analysed |-> FALSE, introspectionSchema |-> FALSE, lastAnalysisError |-> ""]

\* what persistentService.load can resolve with, besides undefined
StoredConfigs ==
  [analysed : BOOLEAN, introspectionSchema : BOOLEAN,
   lastAnalysisError : {"", "earlier failure"}]

ServiceIdle ==
  /\ caller = "direct"
  /\ allowLocalhost = TRUE
  /\ endpoint = NonUrl("empty", 0)
  /\ authorization = ""
  /\ pc = "unused"
  /\ op = "none" /\ shape = "none"
  /\ currentUrl = NonUrl("empty", 0) /\ redirectCount = 0
  /\ inflight = NonUrl("empty", 0) /\ follows = 0
  /\ acceptedUrls = {}
  /\ lastRequest = NoRequest
  /\ callRequests = 0
  /\ violation = ""
  /\ tried = Untried
  /\ cidOutcome = "none" /\ cidError = ""
  /\ opOutcome = "none"
  /\ config = MinimalConfig
  /\ initOutcome = "notStarted"

\* new GraphQLService({endpoint, authorization}) in initializeProjectConfig
\* leaves allowLocalhost at its default, true
ServiceInit ==
  /\ caller \in {"initializeProjectConfig", "direct"}
  /\ allowLocalhost \in (IF caller = "direct" THEN BOOLEAN ELSE {TRUE})
  /\ endpoint \in ServiceEndpoints
  /\ authorization \in Authorizations
  /\ pc = "idle"
  /\ op = "none" /\ shape = "none"
  /\ currentUrl = NonUrl("empty", 0) /\ redirectCount = 0
  /\ inflight = NonUrl("empty", 0) /\ follows = 0
  /\ acceptedUrls = {}
  /\ lastRequest = NoRequest
  /\ callRequests = 0
  /\ violation = ""
  /\ tried = Untried
  /\ cidOutcome = "none" /\ cidError = ""
  /\ opOutcome = "none"
  /\ config \in (IF caller = "direct"
                 THEN {MinimalConfig, [MinimalConfig EXCEPT !.introspectionSchema = TRUE]}
                 ELSE {MinimalConfig})
  /\ initOutcome = "notStarted"

Frame ==
  /\ UNCHANGED <<caller, allowLocalhost, endpoint, authorization>>
  /\ UNCHANGED nonServiceVars

\* initializeProjectConfig: constructs the service and awaits
\* graphqlService.fetchCidFromEndpoint(endpoint)
InitializeProjectConfig ==
  /\ caller = "initializeProjectConfig"
  /\ pc = "idle" /\ initOutcome = "notStarted"
  /\ Becomes(FetchCidStart(Now))
  /\ initOutcome' = "running"
  /\ UNCHANGED config /\ Frame

CallFetchCidFromEndpoint ==
  /\ caller = "direct" /\ pc = "idle"
  /\ Becomes(FetchCidStart(Now))
  /\ UNCHANGED <<config, initOutcome>> /\ Frame

CallExecute ==
  /\ caller = "direct" /\ pc = "idle"
  /\ Becomes(FetchJSONStart(Now, "execute"))
  /\ UNCHANGED <<config, initOutcome>> /\ Frame

\* fetchIntrospectionSchema returns config.introspectionSchema when set
CallFetchIntrospectionSchema ==
  /\ caller = "direct" /\ pc = "idle"
  /\ IF config.introspectionSchema
     THEN Becomes([Now EXCEPT !.callRequests = 0, !.opOutcome = "resolved"])
     ELSE Becomes(FetchJSONStart(Now, "introspection"))
  /\ UNCHANGED <<config, initOutcome>> /\ Frame

\* the server answers 301/302/303/307/308 with a Location the runtime can
\* request: fetch follows it by itself, no code of the service runs
RuntimeFollowsRedirect(loc) ==
  /\ pc \in {"secureFetch", "fetchJSON"}
  /\ follows < MaxFollow
  /\ LET target == ResolveUrl(loc, inflight) IN
       /\ target.ok /\ Fetchable(target.url)
       /\ Becomes(SendRequest([Now EXCEPT !.follows = follows + 1],
                              target.url, "runtime"))
  /\ UNCHANGED <<config, initOutcome>> /\ Frame

SecureFetchResponse(resp) ==
  /\ pc = "secureFetch"
  /\ HandedToCaller(resp)
  /\ Becomes(SecureFetchOnResponse(Now, resp))
  /\ UNCHANGED <<config, initOutcome>> /\ Frame

\* fetch or reader.read() rejects: a network error, a redirect the runtime
\* cannot follow, or the 10 s timer aborting the call
SecureFetchFails ==
  /\ pc = "secureFetch"
  /\ Becomes(ShapeEnds(Now, FALSE))
  /\ UNCHANGED <<config, initOutcome>> /\ Frame

\* in initializeProjectConfig the request is enrichGraphQLConfig's
\* introspection fetch: its result, if any, is stored in the config
FetchJSONSettles(outcome) ==
  /\ pc = "fetchJSON"
  /\ Becomes(FetchJSONEnds(Now, outcome))
  /\ config' = IF caller = "initializeProjectConfig" /\ outcome = "resolved"
               THEN [config EXCEPT !.introspectionSchema = TRUE]
               ELSE config
  /\ UNCHANGED initOutcome /\ Frame

FetchJSONResponse(resp) ==
  /\ HandedToCaller(resp)
  /\ FetchJSONSettles(FetchJSONOnResponse(Now, resp).opOutcome)

\* fetch or response.text() rejects, or the 30 s timer aborts the call
FetchJSONFails == FetchJSONSettles("rejected")

\* const cid = await fetchCidFromEndpoint(endpoint) settles: a throw rejects
\* initializeProjectConfig, a value is passed to persistentService.load
AfterCid ==
  /\ pc = "cidReturned"
  /\ IF cidOutcome = "throws"
     THEN pc' = "done" /\ initOutcome' = "rejected"
     ELSE pc' = "load" /\ UNCHANGED initOutcome
  /\ UNCHANGED <<op, shape, currentUrl, redirectCount, inflight, follows,
                 acceptedUrls, lastRequest, callRequests, violation, tried,
                 cidOutcome, cidError, opOutcome, config>>
  /\ Frame

\* persistentService.load resolves; enrichGraphQLConfig is called and either
\* returns the config as it is (shouldAttemptAnalysis false), so that save is
\* called, or starts loadProjectResources
LoadReturns(stored) ==
  /\ pc = "load"
  /\ config' = stored
  /\ pc' = IF stored.analysed THEN "save" ELSE "analysis"
  /\ UNCHANGED <<op, shape, currentUrl, redirectCount, inflight, follows,
                 acceptedUrls, lastRequest, callRequests, violation, tried,
                 cidOutcome, cidError, opOutcome, initOutcome>>
  /\ Frame

LoadRejects ==
  /\ pc = "load"
  /\ pc' = "done" /\ initOutcome' = "rejected"
  /\ UNCHANGED <<op, shape, currentUrl, redirectCount, inflight, follows,
                 acceptedUrls, lastRequest, callRequests, violation, tried,
                 cidOutcome, cidError, opOutcome, config>>
  /\ Frame

\* loadProjectResources and obtainGraphQLAnalysis end.  A failure returns the
\* config with lastAnalysisError; otherwise the introspection schema is
\* fetched when the config has none.
AnalysisEnds(outcome) ==
  /\ pc = "analysis"
  /\ IF outcome = "failed"
     THEN /\ config' = [config EXCEPT !.lastAnalysisError = "failure message"]
          /\ pc' = "save"
          /\ UNCHANGED <<op, shape, currentUrl, redirectCount, inflight, follows,
                         acceptedUrls, lastRequest, callRequests, violation, tried,
                         cidOutcome, cidError, opOutcome>>
     ELSE /\ config' =
               IF outcome = "ok"
               THEN [config EXCEPT !.analysed = TRUE, !.lastAnalysisError = ""]
               ELSE [config EXCEPT !.lastAnalysisError = "LLM analysis returned no result."]
          /\ IF config.introspectionSchema
             THEN /\ pc' = "save"
                  /\ UNCHANGED <<op, shape, currentUrl, redirectCount, inflight,
                                 follows, acceptedUrls, lastRequest, callRequests,
                                 violation, tried, cidOutcome, cidError, opOutcome>>
             ELSE Becomes(FetchJSONStart(Now, "introspection"))
  /\ UNCHANGED initOutcome /\ Frame

\* persistentService.save settles and initializeProjectConfig with it
SaveEnds(ok) ==
  /\ pc = "save"
  /\ pc' = "done"
  /\ initOutcome' = IF ok THEN "resolved" ELSE "rejected"
  /\ UNCHANGED <<op, shape, currentUrl, redirectCount, inflight, follows,
                 acceptedUrls, lastRequest, callRequests, violation, tried,
                 cidOutcome, cidError, opOutcome, config>>
  /\ Frame

Next ==
  \/ InitializeProjectConfig
  \/ CallFetchCidFromEndpoint
  \/ CallExecute
  \/ CallFetchIntrospectionSchema
  \/ \E loc \in Locations : RuntimeFollowsRedirect(loc)
  \/ \E resp \in Responses : SecureFetchResponse(resp)
  \/ SecureFetchFails
  \/ \E resp \in Responses : FetchJSONResponse(resp)
  \/ FetchJSONFails
  \/ AfterCid
  \/ \E stored \in StoredConfigs \cup {MinimalConfig} : LoadReturns(stored)
  \/ LoadRejects
  \/ \E outcome \in {"ok", "noResult", "failed"} : AnalysisEnds(outcome)
  \/ \E ok \in BOOLEAN : SaveEnds(ok)

(***************************************************************************)
(* One secureFetch call, hop by hop and chunk by chunk                     *)
(***************************************************************************)
\* options.maxContentLength counted in units small enough to enumerate (the
\* caller passes 10 * 1024 * 1024 bytes)
maxContentLength == 4

\* the largest chunk reader.read() delivers, in the same units
MaxChunk == 3

\* the Content-Length header: absent, a decimal number, or any other text
ContentLengths ==
  { [kind |-> "absent", value |-> 0], [kind |-> "text", value |-> 0] }
  \cup { [kind |-> "number", value |-> n] : n \in {0, maxContentLength, maxContentLength + 1} }

\* contentLength && parseInt(contentLength, 10) > maxContentLength; parseInt
\* of a text without leading digits is NaN, and NaN > n is false
DeclaredTooLarge(h) == h.kind = "number" /\ h.value > maxContentLength

\* statuses with a null body: response.body is null
NullBodyStatuses == {204, 205, 304}

SecureFetchStatuses == {200, 204, 300, 302, 500}

\* what a server answers to one hop: status, what validateRedirect and
\* new URL make of the Location header ("none": no header), Content-Length
SecureFetchResponses ==
  [status : SecureFetchStatuses \ {300, 302}, location : {"none"},
   contentLength : ContentLengths]
  \cup [status : {300, 302}, location : {"none", "accepted", "rejected", "unparsable"},
        contentLength : {[kind |-> "absent", value |-> 0]}]

SecureFetchIdle ==
  sf = [pc |-> "unused", maxRedirects |-> 0, redirectCount |-> 0,
        timer |-> "none", timersArmed |-> 0, requests |-> 0, inFlight |-> 0,
        redirectResponses |-> 0, follows |-> 0, status |-> 0,
        receivedLength |-> 0, chunks |-> <<>>, readerCancelled |-> FALSE,
        error |-> "", requestsWhenFired |-> 0,
        requestsAtBareRedirect |-> 0]

\* before the call: options.maxRedirects is the caller's choice
SecureFetchInit ==
  \E m \in 0..MaxRedirects :
    sf = [pc |-> "idle", maxRedirects |-> m, redirectCount |-> 0,
          timer |-> "none", timersArmed |-> 0, requests |-> 0, inFlight |-> 0,
          redirectResponses |-> 0, follows |-> 0, status |-> 0,
          receivedLength |-> 0, chunks |-> <<>>, readerCancelled |-> FALSE,
          error |-> "", requestsWhenFired |-> 0,
        requestsAtBareRedirect |-> 0]

Throws_TimerLeftArmed(s, msg) ==
  [s EXCEPT !.pc = "rejected", !.error = msg, !.inFlight = 0]

\* the call throws: finally { clearTimeout(timer) }
Throws(s, msg) ==
  [s EXCEPT !.pc = "rejected", !.error = msg, !.inFlight = 0,
            !.timer = IF s.timer = "armed" THEN "cleared" ELSE s.timer]

\* await fetch(currentUrl, {..., signal: controller.signal})
IssueFetch(s) ==
  [s EXCEPT !.pc = "fetch", !.requests = s.requests + 1,
            !.inFlight = s.inFlight + 1, !.follows = 0]

ChunksAfterRead_StoredFirst(chunks, receivedLength, value) ==
  Append(chunks, value)

\* receivedLength += value.length; if (receivedLength > maxContentLength)
\* { void reader.cancel(); throw } chunks.push(value): receivedLength is the
\* count after the addition
ChunksAfterRead(chunks, receivedLength, value) ==
  IF receivedLength > maxContentLength THEN chunks ELSE Append(chunks, value)

PcAfterAbort_ReadGoesOn(awaiting) ==
  IF awaiting = "read" THEN "read" ELSE "rejected"

\* controller.abort(): the pending fetch rejects, and so does the pending
\* reader.read() of a response obtained with the signal
PcAfterAbort(awaiting) == "rejected"

\* secureFetch(endpoint, body, options) up to its first await
SecureFetchCall ==
  /\ sf.pc = "idle"
  /\ sf' = IssueFetch([sf EXCEPT !.redirectCount = 0, !.timer = "armed",
                                 !.timersArmed = sf.timersArmed + 1])
  /\ UNCHANGED nonSecureFetchVars

\* the server answers 301/302/303/307/308 with a Location: the runtime
\* requests the target itself, secureFetch is still awaiting fetch
SecureFetchRuntimeFollows ==
  /\ sf.pc = "fetch"
  /\ sf.follows < MaxFollow
  /\ sf' = [sf EXCEPT !.redirectResponses = sf.redirectResponses + 1,
                      !.requests = sf.requests + 1,
                      !.follows = sf.follows + 1]
  /\ UNCHANGED nonSecureFetchVars

\* fetch resolves with a response: the redirect branch, the Content-Length
\* check and getReader(), up to the next await
SecureFetchOnHeaders(resp) ==
  /\ sf.pc = "fetch"
  /\ ~(resp.status \in FollowedStatuses /\ resp.location # "none")
  /\ LET s == [sf EXCEPT !.inFlight = 0, !.status = resp.status,
                         !.requestsAtBareRedirect =
                            IF resp.status >= 300 /\ resp.status < 400
                               /\ resp.location = "none"
                            THEN sf.requests ELSE sf.requestsAtBareRedirect] IN
       sf' =
         IF resp.status >= 300 /\ resp.status < 400 /\ resp.location # "none"
         THEN LET s1 == [s EXCEPT !.redirectCount = s.redirectCount + 1,
                                  !.redirectResponses = s.redirectResponses + 1]
              IN IF s1.redirectCount > s1.maxRedirects
                   THEN Throws(s1, "Too many redirects")
                 ELSE IF resp.location = "unparsable"
                   THEN Throws(s1, "Invalid URL")
                 ELSE IF resp.location = "rejected"
                   THEN Throws(s1, "validateRedirect")
                 ELSE IssueFetch(s1)
         ELSE IF DeclaredTooLarge(resp.contentLength)
           THEN Throws(s, "Response too large")
         ELSE IF resp.status \in NullBodyStatuses
           THEN Throws(s, "Unable to read response body")
         ELSE [s EXCEPT !.pc = "read", !.receivedLength = 0, !.chunks = <<>>]
  /\ UNCHANGED nonSecureFetchVars

\* reader.read() resolves with a chunk of `value` units
SecureFetchOnChunk(value) ==
  /\ sf.pc = "read"
  /\ LET received == sf.receivedLength + value
         s == [sf EXCEPT !.receivedLength = received,
                         !.chunks = ChunksAfterRead(sf.chunks, received, value)]
     IN sf' = IF received > maxContentLength
              THEN Throws([s EXCEPT !.readerCancelled = TRUE], "Response too large")
              ELSE s
  /\ UNCHANGED nonSecureFetchVars

\* reader.read() resolves with done: the text is decoded and parsed, a
\* status that is not 2xx throws, otherwise the data is returned
SecureFetchOnDone ==
  /\ sf.pc = "read"
  /\ sf' = IF ~Ok(sf.status) THEN Throws(sf, "Request failed")
           ELSE [sf EXCEPT !.pc = "returned", !.timer = "cleared"]
  /\ UNCHANGED nonSecureFetchVars

\* the timer set at the start of the call fires while the call awaits
SecureFetchTimerFires ==
  /\ sf.pc \in {"fetch", "read"}
  /\ sf.timer = "armed"
  /\ LET after == PcAfterAbort(sf.pc) IN
       sf' = IF after = "rejected"
             THEN [sf EXCEPT !.pc = "rejected", !.error = "This operation was aborted",
                             !.inFlight = 0, !.timer = "fired",
                             !.requestsWhenFired = sf.requests]
             ELSE [sf EXCEPT !.timer = "fired", !.requestsWhenFired = sf.requests]
  /\ UNCHANGED nonSecureFetchVars

\* fetch or reader.read() rejects: a network error, or a redirect the
\* runtime cannot follow
SecureFetchRejects ==
  /\ sf.pc \in {"fetch", "read"}
  /\ sf' = Throws(sf, "fetch failed")
  /\ UNCHANGED nonSecureFetchVars

SecureFetchNext ==
  \/ SecureFetchCall
  \/ SecureFetchRuntimeFollows
  \/ \E resp \in SecureFetchResponses : SecureFetchOnHeaders(resp)
  \/ \E value \in 1..MaxChunk : SecureFetchOnChunk(value)
  \/ SecureFetchOnDone
  \/ SecureFetchTimerFires
  \/ SecureFetchRejects

(***************************************************************************)
(* GraphQLService.schemaCache, fetchSchema and validate, called            *)
(* concurrently on one instance                                            *)
(***************************************************************************)
\* calls made on the instance
MaxCalls == 3

\* the most errors graphql's validate reports for one query here
MaxValidationErrors == 2

CallIds == 1..MaxCalls

\* validate(schema, document) reports no error, or some
ValidationErrorCounts == {0, MaxValidationErrors}

\* this.schemaCache.get(key) of a key without entry: undefined
NoSchema == 0

\* config.introspectionSchema: absent, data buildClientSchema accepts, or
\* data it throws on
IntrospectionValues == {"none", "valid", "unbuildable"}

OtherOperations == {"execute", "fetchIntrospectionSchema", "fetchCidFromEndpoint"}

NewCall ==
  [op |-> "none", pc |-> "idle", outcome |-> "none", result |-> NoSchema,
   issues |-> 0, parses |-> TRUE, readCache |-> FALSE, sawCache |-> NoSchema,
   wrote |-> FALSE, sentRequest |-> FALSE, schemaFailed |-> FALSE,
   before |-> {}]

SchemaIdle ==
  /\ introspectionSchema = "none"
  /\ schemaCache = NoSchema
  /\ nextSchema = 1
  /\ calls = <<>>
  /\ completed = <<>>

\* new GraphQLService(config): schemaCache = new Map()
SchemaInit ==
  /\ introspectionSchema \in IntrospectionValues
  /\ schemaCache = NoSchema
  /\ nextSchema = 1
  /\ calls = [i \in CallIds |-> NewCall]
  /\ completed = <<>>

\* the calls that have settled
Completed == {completed[k] : k \in 1..Len(completed)}

CacheHit_Never(cache) == FALSE

\* const cached = this.schemaCache.get(key); if (cached)
CacheHit(cache) == cache # NoSchema

CacheSet_Dropped(cache, schema) == cache

CacheSet_IfAbsent(cache, schema) == IF cache = NoSchema THEN schema ELSE cache

\* this.schemaCache.set(key, schema)
CacheSet(cache, schema) == schema

CacheAfterFailure_Poisoned(cache) == NoSchema

\* buildClientSchema or fetchIntrospectionSchema throws before
\* this.schemaCache.set is reached
CacheAfterFailure(cache) == cache

\* a step of a call: the call's record afterwards, the cache, the next
\* schema object
Step(c, cache, next) == [call |-> c, cache |-> cache, next |-> next]

\* fetchSchema throws
FetchSchemaThrows(c) ==
  Step([c EXCEPT !.pc = "done", !.outcome = "rejected", !.schemaFailed = TRUE],
       CacheAfterFailure(schemaCache), nextSchema)

\* schema = buildClientSchema(introspectionData);
\* this.schemaCache.set(key, schema); return schema
BuildAndStore(c, data) ==
  IF data = "valid"
  THEN Step([c EXCEPT !.pc = "done", !.outcome = "schema",
                      !.result = nextSchema, !.wrote = TRUE],
            CacheSet(schemaCache, nextSchema), nextSchema + 1)
  ELSE FetchSchemaThrows(c)

\* fetchSchema() up to its first await, or to its end when there is none
FetchSchemaBegin(c) ==
  LET c1 == [c EXCEPT !.readCache = TRUE, !.sawCache = schemaCache] IN
    IF CacheHit(schemaCache)
      THEN Step([c1 EXCEPT !.pc = "done", !.outcome = "schema",
                           !.result = schemaCache],
                schemaCache, nextSchema)
    ELSE IF introspectionSchema # "none"
      THEN BuildAndStore(c1, introspectionSchema)
    ELSE Step([c1 EXCEPT !.pc = "await", !.sentRequest = TRUE],
              schemaCache, nextSchema)

ValidateCatch_Rethrows(c) == [c EXCEPT !.outcome = "rejected"]

\* catch (error) { issues.push(message) } return issues
ValidateCatch(c) == [c EXCEPT !.outcome = "issues", !.issues = c.issues + 1]

\* validate(query) once fetchSchema has settled: the errors of
\* validate(schema, parse(query)) are pushed, or the one message of the catch
ValidateAfterSchema(r, errs) ==
  IF r.call.pc # "done" THEN r
  ELSE IF r.call.outcome = "schema"
    THEN [r EXCEPT !.call.outcome = "issues", !.call.issues = errs]
  ELSE [r EXCEPT !.call = ValidateCatch(r.call)]

ParseErrorReturns_FallsThrough(parses) == FALSE

\* try { parse(query) } catch (error) { issues.push(...); return issues }
ParseErrorReturns(parses) == ~parses

\* call i is the i-th call made on the instance
NextToStart(i) ==
  /\ calls[i].pc = "idle"
  /\ \A j \in CallIds : j < i => calls[j].op # "none"

\* the call's record, the cache and the schema counter become those of r;
\* a call that has settled is appended to the completion order
Apply(i, r) ==
  /\ calls' = [calls EXCEPT ![i] = r.call]
  /\ schemaCache' = r.cache
  /\ nextSchema' = r.next
  /\ completed' = IF r.call.pc = "done" THEN Append(completed, i) ELSE completed
  /\ UNCHANGED introspectionSchema
  /\ UNCHANGED nonSchemaVars

fetchSchema(i) ==
  /\ NextToStart(i)
  /\ Apply(i, FetchSchemaBegin([calls[i] EXCEPT !.op = "fetchSchema",
                                                !.before = Completed]))

validate(i, parses, errs) ==
  /\ NextToStart(i)
  /\ LET c == [calls[i] EXCEPT !.op = "validate", !.parses = parses,
                               !.before = Completed]
     IN IF ParseErrorReturns(parses)
        THEN Apply(i, Step([c EXCEPT !.pc = "done", !.outcome = "issues",
                                     !.issues = 1],
                           schemaCache, nextSchema))
        ELSE Apply(i, ValidateAfterSchema(FetchSchemaBegin(c), errs))

\* fetchJSON resolves: data.data is handed to buildClientSchema
IntrospectionArrives(i, data, errs) ==
  /\ calls[i].pc = "await"
  /\ LET r == BuildAndStore(calls[i], data) IN
       Apply(i, IF calls[i].op = "validate" THEN ValidateAfterSchema(r, errs) ELSE r)

\* fetchJSON rejects (network error, status that is not 2xx, timeout):
\* fetchIntrospectionSchema logs and rethrows
IntrospectionRejects(i) ==
  /\ calls[i].pc = "await"
  /\ LET r == FetchSchemaThrows(calls[i]) IN
       Apply(i, IF calls[i].op = "validate" THEN ValidateAfterSchema(r, 0) ELSE r)

\* execute, fetchIntrospectionSchema, fetchCidFromEndpoint: none of them
\* touches schemaCache
OtherOperation(i, o) ==
  /\ NextToStart(i)
  /\ Apply(i, Step([calls[i] EXCEPT !.op = o, !.pc = "awaitOther",
                                    !.before = Completed],
                   schemaCache, nextSchema))

OtherOperationEnds(i) ==
  /\ calls[i].pc = "awaitOther"
  /\ Apply(i, Step([calls[i] EXCEPT !.pc = "done", !.outcome = "other"],
                   schemaCache, nextSchema))

SchemaNext ==
  \/ \E i \in CallIds : fetchSchema(i)
  \/ \E i \in CallIds, parses \in BOOLEAN, errs \in ValidationErrorCounts :
       validate(i, parses, errs)
  \/ \E i \in CallIds, data \in {"valid", "unbuildable"},
        errs \in ValidationErrorCounts : IntrospectionArrives(i, data, errs)
  \/ \E i \in CallIds : IntrospectionRejects(i)
  \/ \E i \in CallIds, o \in OtherOperations : OtherOperation(i, o)
  \/ \E i \in CallIds : OtherOperationEnds(i)

(***************************************************************************)
(* GraphQLService.execute: one call of fetchJSON                           *)
(***************************************************************************)
\* the most entries of a response's errors array
MaxGraphQLErrors == 2

ExecuteStatuses == {200, 201, 400, 500}

\* a response body: JSON text of an object with the members data and errors
\* (errors |-> 0: no such member), text that is not JSON, or no text at all
NoText == [syntax |-> "none", data |-> "absent", errors |-> 0]

BodyTexts ==
  { [syntax |-> "json", data |-> d, errors |-> e] :
      d \in {"absent", "null", "object"}, e \in 0..MaxGraphQLErrors }
  \cup { [syntax |-> "html", data |-> "absent", errors |-> 0],
         [syntax |-> "empty", data |-> "absent", errors |-> 0] }

NoValue == [data |-> "absent", errors |-> 0]

\* JSON.parse(text): the value, or a SyntaxError
JSONParse(text) ==
  IF text.syntax = "json"
  THEN [ok |-> TRUE, value |-> [data |-> text.data, errors |-> text.errors]]
  ELSE [ok |-> FALSE, value |-> NoValue]

NoResult == [kind |-> "none", value |-> NoValue, text |-> NoText]

FetchJSONOutcome_RejectsGraphQLErrors(status, text) ==
  IF ~Ok(status) \/ JSONParse(text).value.errors > 0
  THEN [pc |-> "rejected", result |-> NoResult, error |-> "GraphQL request failed"]
  ELSE [pc |-> "resolved",
        result |-> IF JSONParse(text).ok
                   THEN [kind |-> "value", value |-> JSONParse(text).value,
                         text |-> NoText]
                   ELSE [kind |-> "text", value |-> NoValue, text |-> text],
        error |-> ""]

\* try { data = JSON.parse(text) } catch { data = text }
\* if (!response.ok) throw new Error(...); return data
FetchJSONOutcome(status, text) ==
  LET parsed == JSONParse(text)
      data == IF parsed.ok
              THEN [kind |-> "value", value |-> parsed.value, text |-> NoText]
              ELSE [kind |-> "text", value |-> NoValue, text |-> text]
  IN IF ~Ok(status)
     THEN [pc |-> "rejected", result |-> NoResult,
           error |-> "GraphQL request failed"]
     ELSE [pc |-> "resolved", result |-> data, error |-> ""]

ExecuteIdle ==
  fj = [pc |-> "idle", timer |-> "none", requestKeys |-> {}, status |-> 0,
        text |-> NoText, result |-> NoResult, error |-> ""]

ExecuteInit == ExecuteIdle

\* execute(query, variables) -> fetchJSON up to its first await: the timer is
\* armed and the request is sent, with the variables key only when given
execute(hasVariables) ==
  /\ fj.pc = "idle"
  /\ fj' = [fj EXCEPT !.pc = "fetching", !.timer = "armed",
                      !.requestKeys = IF hasVariables THEN {"query", "variables"}
                                      ELSE {"query"}]
  /\ UNCHANGED nonExecuteVars

\* fetch resolves with the response; response.text() is awaited
ExecuteHeaders(status) ==
  /\ fj.pc = "fetching"
  /\ fj' = [fj EXCEPT !.pc = "readingBody", !.status = status]
  /\ UNCHANGED nonExecuteVars

\* response.text() resolves; the rest of fetchJSON runs, finally included
ExecuteText(text) ==
  /\ fj.pc = "readingBody"
  /\ LET o == FetchJSONOutcome(fj.status, text) IN
       fj' = [fj EXCEPT !.pc = o.pc, !.text = text, !.result = o.result,
                        !.error = o.error, !.timer = "cleared"]
  /\ UNCHANGED nonExecuteVars

\* fetch rejects (no connection)
ExecuteFetchRejects ==
  /\ fj.pc = "fetching"
  /\ fj' = [fj EXCEPT !.pc = "rejected", !.error = "fetch failed",
                      !.timer = "cleared"]
  /\ UNCHANGED nonExecuteVars

\* response.text() rejects (the connection breaks during the body)
ExecuteTextRejects ==
  /\ fj.pc = "readingBody"
  /\ fj' = [fj EXCEPT !.pc = "rejected", !.error = "terminated",
                      !.timer = "cleared"]
  /\ UNCHANGED nonExecuteVars

\* the timer fires: controller.abort() rejects the pending fetch or the
\* pending response.text()
ExecuteTimerFires ==
  /\ fj.pc \in {"fetching", "readingBody"}
  /\ fj.timer = "armed"
  /\ fj' = [fj EXCEPT !.pc = "rejected", !.error = "This operation was aborted",
                      !.timer = "fired"]
  /\ UNCHANGED nonExecuteVars

ExecuteNext ==
  \/ \E hasVariables \in BOOLEAN : execute(hasVariables)
  \/ \E status \in ExecuteStatuses : ExecuteHeaders(status)
  \/ \E text \in BodyTexts : ExecuteText(text)
  \/ ExecuteFetchRejects
  \/ ExecuteTextRejects
  \/ ExecuteTimerFires

(***************************************************************************)
(* The CID of a shape A response (fetchCidFromEndpoint)                    *)
(***************************************************************************)
\* the most members of a deployments mapping
MaxDeployments == 2

\* member names: two that are not array indices and two that are
DeploymentKeys == {"a", "b", "1", "2"}

IsArrayIndex(key) == key \in {"1", "2"}

ArrayIndex(key) == IF key = "1" THEN 1 ELSE 2

\* strings, as sequences of pieces; "ipfs://" is one piece, <<>> is ''
CidStrings ==
  { <<>>, <<"QmA">>, <<"QmB">>, <<"ipfs://", "QmA">>,
    <<"QmA", "ipfs://", "QmB">> }

\* a mapping as JSON.parse builds it: members in the order of the text
Mappings ==
  UNION { { m \in [1..n -> DeploymentKeys \X CidStrings] :
              \A i, j \in 1..n : i # j => m[i][1] # m[j][1] } :
          n \in 0..MaxDeployments }

ObjectValues_InsertionOrder(mapping) ==
  [i \in 1..Len(mapping) |-> mapping[i][2]]

\* Object.values(deployments): the members named by array indices first, in
\* ascending numeric order, then the others in insertion order
ObjectValues(mapping) ==
  LET indexed == SortSeq(SelectSeq(mapping, LAMBDA e : IsArrayIndex(e[1])),
                         LAMBDA x, y : ArrayIndex(x[1]) < ArrayIndex(y[1]))
      named == SelectSeq(mapping, LAMBDA e : ~IsArrayIndex(e[1]))
      own == indexed \o named
  IN [i \in 1..Len(own) |-> own[i][2]]

FirstIndexOf(str, piece) ==
  IF \E i \in 1..Len(str) : str[i] = piece
  THEN CHOOSE i \in 1..Len(str) :
         str[i] = piece /\ \A j \in 1..(i - 1) : str[j] # piece
  ELSE 0

ReplaceFirst_LeadingOnly(str, piece) ==
  IF Len(str) > 0 /\ str[1] = piece THEN Tail(str) ELSE str

\* str.replace(piece, ''): the first occurrence is removed, wherever it is
ReplaceFirst(str, piece) ==
  LET k == FirstIndexOf(str, piece) IN
    IF k = 0 THEN str
    ELSE [i \in 1..(Len(str) - 1) |-> IF i < k THEN str[i] ELSE str[i + 1]]

\* cid = deployments ? Object.values(deployments).pop() : undefined; a falsy
\* cid sends the method on to shape B, any other is cleaned and returned
CidOfDeployments(mapping) ==
  LET values == ObjectValues(mapping)
      cid == IF Len(values) = 0 THEN <<>> ELSE values[Len(values)]
  IN IF cid = <<>> THEN [kind |-> "shapeB", cid |-> <<>>]
     ELSE [kind |-> "cid", cid |-> ReplaceFirst(cid, "ipfs://")]

CidIdle == cx = [pc |-> "idle", deployments |-> <<>>, result |-> [kind |-> "none", cid |-> <<>>]]

CidInit ==
  \E m \in Mappings :
    cx = [pc |-> "response", deployments |-> m,
          result |-> [kind |-> "none", cid |-> <<>>]]

\* lines 297-354 for the shape A response at hand
ExtractCid ==
  /\ cx.pc = "response"
  /\ cx' = [cx EXCEPT !.pc = "done", !.result = CidOfDeployments(cx.deployments)]
  /\ UNCHANGED nonCidVars

CidNext == ExtractCid

(***************************************************************************)
(* The validate-and-execute tool (graphql_query_validator)                 *)
(***************************************************************************)
\* the most braces, or parentheses, of one kind in a query
MaxBrackets == 1

\* the cleaned query: whether it is '', its counts of { } ( ), and whether
\* graphql's parse accepts it (a bracket inside a string literal counts for
\* the tool and not for the grammar)
Queries ==
  [empty : {FALSE}, openBraces : 0..MaxBrackets, closeBraces : 0..MaxBrackets,
   openParens : 0..MaxBrackets, closeParens : 0..MaxBrackets, parses : BOOLEAN]
  \cup { [empty |-> TRUE, openBraces |-> 0, closeBraces |-> 0, openParens |-> 0,
          closeParens |-> 0, parses |-> FALSE] }

NoQuery ==
  [empty |-> TRUE, openBraces |-> 0, closeBraces |-> 0, openParens |-> 0,
   closeParens |-> 0, parses |-> FALSE]

\* validationErrors of the basic checks
BasicErrors(q) ==
  (IF q.openBraces # q.closeBraces THEN 1 ELSE 0)
  + (IF q.openParens # q.closeParens THEN 1 ELSE 0)

\* what graphQLService.execute hands back to _execute
ExecuteOutcomes == {"data", "errors", "neither", "rejected"}

\* the text _execute returns
ExecuteReport(outcome) ==
  CASE outcome = "errors" -> "Query execution failed"
    [] outcome = "data" -> "Query executed successfully"
    [] outcome = "neither" -> "Unexpected response format"
    [] OTHER -> "Error executing query"

\* the service call the tool's validate is, and the one its fetchSchema is
ToolValidateCall == 1

ToolFetchSchemaCall == 2

ToolIdle ==
  tool = [pc |-> "idle", query |-> NoQuery, validated |-> FALSE,
          executeCalls |-> 0, report |-> ""]

ToolInit == ToolIdle

ToolReturns(q, report) ==
  [tool EXCEPT !.pc = "returned", !.query = q, !.report = report]

ToolProceeds_WhateverTheIssues(c) == TRUE

\* try { validationResult = await validate(query); if (length > 0)
\* schemaValidationErrors = validationResult } catch {}; execution goes on
\* when schemaValidationErrors is empty
ToolProceeds(c) == c.outcome = "rejected" \/ c.issues = 0

\* func(input) up to its first await: cleaning, the basic checks, parse, and
\* the call of graphQLService.validate
ToolCall(q, errs) ==
  /\ tool.pc = "idle"
  /\ NextToStart(ToolValidateCall)
  /\ IF q.empty \/ BasicErrors(q) > 0 \/ ~q.parses
     THEN /\ tool' = ToolReturns(q, CASE q.empty -> "Empty query"
                                      [] BasicErrors(q) > 0 ->
                                           "Basic syntax validation failed"
                                      [] OTHER -> "Query parsing failed")
          /\ UNCHANGED schemaVars
     ELSE /\ tool' = [tool EXCEPT !.pc = "awaitValidate", !.query = q]
          /\ LET c == [calls[ToolValidateCall] EXCEPT !.op = "validate",
                                                      !.parses = q.parses,
                                                      !.before = Completed]
                 r == ValidateAfterSchema(FetchSchemaBegin(c), errs)
             IN /\ calls' = [calls EXCEPT ![ToolValidateCall] = r.call]
                /\ schemaCache' = r.cache
                /\ nextSchema' = r.next
                /\ completed' = IF r.call.pc = "done"
                                THEN Append(completed, ToolValidateCall)
                                ELSE completed
                /\ UNCHANGED introspectionSchema
  /\ UNCHANGED nonToolVars

\* validate has settled and func resumes: the issues are reported, or
\* fetchSchema is called without being awaited and _execute calls
\* graphQLService.execute
ToolResumes ==
  /\ tool.pc = "awaitValidate"
  /\ calls[ToolValidateCall].pc = "done"
  /\ IF ToolProceeds(calls[ToolValidateCall])
     THEN /\ tool' = [tool EXCEPT !.pc = "awaitExecute",
                                  !.validated =
                                     calls[ToolValidateCall].outcome = "issues",
                                  !.executeCalls = tool.executeCalls + 1]
          /\ LET r == FetchSchemaBegin(
                        [calls[ToolFetchSchemaCall] EXCEPT !.op = "fetchSchema",
                                                           !.before = Completed])
             IN /\ calls' = [calls EXCEPT ![ToolFetchSchemaCall] = r.call]
                /\ schemaCache' = r.cache
                /\ nextSchema' = r.next
                /\ completed' = IF r.call.pc = "done"
                                THEN Append(completed, ToolFetchSchemaCall)
                                ELSE completed
                /\ UNCHANGED introspectionSchema
     ELSE /\ tool' = [tool EXCEPT !.pc = "returned", !.validated = TRUE,
                                  !.report = "Schema validation failed"]
          /\ UNCHANGED schemaVars
  /\ UNCHANGED nonToolVars

\* graphQLService.execute settles and _execute returns its report
ToolExecuteSettles(outcome) ==
  /\ tool.pc = "awaitExecute"
  /\ tool' = [tool EXCEPT !.pc = "returned", !.report = ExecuteReport(outcome)]
  /\ UNCHANGED schemaVars
  /\ UNCHANGED nonToolVars

ToolNext ==
  \/ \E q \in Queries, errs \in ValidationErrorCounts : ToolCall(q, errs)
  \/ \E data \in {"valid", "unbuildable"}, errs \in ValidationErrorCounts :
       IntrospectionArrives(ToolValidateCall, data, errs)
  \/ IntrospectionRejects(ToolValidateCall)
  \/ ToolResumes
  \/ \E outcome \in ExecuteOutcomes : ToolExecuteSettles(outcome)

(***************************************************************************)
(* buildSystemPrompt (prompts.ts)                                          *)
(***************************************************************************)
\* the highest verbose level called with
MaxVerbose == 3

\* the most entries of config.domainCapabilities
MaxCapabilities == 2

VerboseLevels == -1..MaxVerbose

PromptConfigs ==
  [domainName : {"Test API", "Uniswap"},
   domainCapabilities :
     UNION { [1..n -> {"Test queries", "Token prices"}] : n \in 0..MaxCapabilities },
   declineMessage : {"Cannot process", "Out of scope"}]

\* the text, as the sequence of the pieces the template literals join
IncludeQuery == "- Always include the exact GraphQL query(s) used in your response"

ToolCallDetails ==
  "- After each query execution, report the tool call details including: number of queries composed, any validation failures, execution times, and data sizes returned"

ExplainStrategy ==
  "- Explain your query construction strategy and any optimizations made"

VerboseInstructions_DetailsFromLevel1(verbose) ==
  IF verbose >= 1
  THEN << "VERBOSE OUTPUT (Level ", ToString(verbose), "):",
          IncludeQuery, ToolCallDetails,
          IF verbose >= 2 THEN ExplainStrategy ELSE "" >>
  ELSE << "" >>

\* let verboseInstructions = ''; if (verbose >= 1) verboseInstructions = `...`
VerboseInstructions(verbose) ==
  IF verbose >= 1
  THEN << "VERBOSE OUTPUT (Level ", ToString(verbose), "):",
          IF verbose >= 1 THEN IncludeQuery ELSE "",
          IF verbose >= 2 THEN ToolCallDetails ELSE "",
          IF verbose >= 2 THEN ExplainStrategy ELSE "" >>
  ELSE << "" >>

Capabilities(cfg) ==
  IF Len(cfg.domainCapabilities) > 0
  THEN [i \in 1..Len(cfg.domainCapabilities) |-> cfg.domainCapabilities[i]]
  ELSE << "Explore indexed entities and summarize findings" >>

buildSystemPrompt(cfg, verbose) ==
  << "You are a GraphQL assistant for ", cfg.domainName,
     "DOMAIN CAPABILITIES:" >>
  \o Capabilities(cfg)
  \o << "INSTRUCTIONS:", "7. Decline unrelated requests with: ",
        cfg.declineMessage >>
  \o VerboseInstructions(verbose)
  \o << "CRITICAL RULES - TOOL CALL LIMIT:" >>

PromptIdle ==
  prompt = [pc |-> "idle", verbose |-> 0,
            config |-> [domainName |-> "Test API", domainCapabilities |-> <<>>,
                        declineMessage |-> "Cannot process"],
            text |-> <<>>]

PromptInit ==
  \E cfg \in PromptConfigs, verbose \in VerboseLevels :
    prompt = [pc |-> "called", verbose |-> verbose, config |-> cfg, text |-> <<>>]

BuildSystemPrompt ==
  /\ prompt.pc = "called"
  /\ prompt' = [prompt EXCEPT !.pc = "built",
                              !.text = buildSystemPrompt(prompt.config, prompt.verbose)]
  /\ UNCHANGED nonPromptVars

PromptNext == BuildSystemPrompt

(***************************************************************************)
(* initializeProjectConfig and ProjectManager.enrichGraphQLConfig          *)
(***************************************************************************)
\* a GraphQLProjectConfig: the fields the two functions read or write ("" and
\* 0 stand for an absent field)
ProjectConfig(cid, name, capabilities, schemaContent, introspected, err) ==
  [cid |-> cid, domainName |-> name, domainCapabilities |-> capabilities,
   schemaContent |-> schemaContent, nodeType |-> IF schemaContent = "" THEN "" ELSE "subql",
   introspectionSchema |-> introspected, lastAnalyzedAt |-> name # "",
   lastAnalysisError |-> err]

\* config = {cid, endpoint, authorization}
MinimalProjectConfig(cid) == ProjectConfig(cid, "", 0, "", FALSE, "")

\* what persistentService.load can resolve with for the CID, undefined aside
LoadedConfigs(cid) ==
  { ProjectConfig(cid, "Stored", 1, "stored schema", i, "") : i \in BOOLEAN }
  \cup { ProjectConfig(cid, "", 0, "", FALSE, "earlier failure"),
         ProjectConfig(cid, "Stored", 0, "stored schema", TRUE, ""),
         ProjectConfig(cid, "Stored", 1, "", TRUE, "") }

\* return !config.domainName || !config.domainCapabilities ||
\* config.domainCapabilities.length === 0 || !config.schemaContent
ShouldAttemptAnalysis(c) ==
  c.domainName = "" \/ c.domainCapabilities = 0 \/ c.schemaContent = ""

\* [{...config, schemaContent: schema, nodeType: provider}, manifest]
WithProjectResources(c) ==
  [c EXCEPT !.schemaContent = "fetched schema", !.nodeType = "thegraph"]

\* updated = {...updated, domainName, domainCapabilities, declineMessage,
\* lastAnalyzedAt}; delete updated.lastAnalysisError
WithAnalysis(c) ==
  [c EXCEPT !.domainName = "Analysed", !.domainCapabilities = 1,
            !.lastAnalyzedAt = TRUE, !.lastAnalysisError = ""]

EnrichCatch_KeepsResources(c, updated, message) ==
  [updated EXCEPT !.lastAnalysisError = message]

\* catch (error) { return {...config, lastAnalysisError: message} }
EnrichCatch(c, updated, message) == [c EXCEPT !.lastAnalysisError = message]

SavedConfig_BeforeEnrichment(c, enriched) == c

\* await persistentService.save(endpoint, enriched)
SavedConfig(c, enriched) == enriched

NoProjectConfig == ProjectConfig("", "", 0, "", FALSE, "")

ProjectIdle ==
  pj = [pc |-> "unused", log |-> <<>>, cid |-> "", config |-> NoProjectConfig,
        updated |-> NoProjectConfig, failure |-> "", introspection |-> "none",
        enriched |-> NoProjectConfig, saved |-> NoProjectConfig,
        returned |-> NoProjectConfig, outcome |-> "none"]

ProjectInit ==
  pj = [pc |-> "idle", log |-> <<>>, cid |-> "", config |-> NoProjectConfig,
        updated |-> NoProjectConfig, failure |-> "", introspection |-> "none",
        enriched |-> NoProjectConfig, saved |-> NoProjectConfig,
        returned |-> NoProjectConfig, outcome |-> "none"]

\* enrichGraphQLConfig returns enriched; initializeProjectConfig calls save
EnrichReturns(s, enriched) ==
  [s EXCEPT !.pc = "save", !.enriched = enriched,
            !.saved = SavedConfig(s.config, enriched),
            !.log = Append(s.log, "save")]

\* an error thrown inside the try of enrichGraphQLConfig
EnrichThrows(s, message) ==
  EnrichReturns([s EXCEPT !.failure = message],
                EnrichCatch(s.config, s.updated, message))

\* initializeProjectConfig up to its first await
ProjectCall ==
  /\ pj.pc = "idle"
  /\ pj' = [pj EXCEPT !.pc = "cid", !.log = <<"fetchCidFromEndpoint">>]
  /\ UNCHANGED nonProjectVars

\* fetchCidFromEndpoint settles: load is called with the CID, or the error
\* leaves initializeProjectConfig
ProjectCidEnds(r) ==
  /\ pj.pc = "cid"
  /\ pj' = IF r = "throws"
           THEN [pj EXCEPT !.pc = "done", !.outcome = "rejected"]
           ELSE [pj EXCEPT !.pc = "load", !.cid = r, !.log = Append(pj.log, "load")]
  /\ UNCHANGED nonProjectVars

\* load rejects
ProjectLoadRejects ==
  /\ pj.pc = "load"
  /\ pj' = [pj EXCEPT !.pc = "done", !.outcome = "rejected"]
  /\ UNCHANGED nonProjectVars

\* load resolves (found: with a stored config); enrichGraphQLConfig is called
\* and runs to its first await, or to its end when no analysis is due
ProjectLoadEnds(found, stored) ==
  /\ pj.pc = "load"
  /\ stored \in LoadedConfigs(pj.cid)
  /\ LET c == IF found THEN stored ELSE MinimalProjectConfig(pj.cid)
         s == [pj EXCEPT !.config = c, !.updated = c,
                         !.log = Append(pj.log, "enrichGraphQLConfig")]
     IN pj' = IF ShouldAttemptAnalysis(c) THEN [s EXCEPT !.pc = "manifest"]
              ELSE EnrichReturns(s, c)
  /\ UNCHANGED nonProjectVars

\* fetchFromIPFS(config.cid) settles; parseManifest and the start of
\* resolveSchemaContent follow
EnrichManifestEnds(r) ==
  /\ pj.pc = "manifest"
  /\ pj' = CASE r = "ok" -> [pj EXCEPT !.pc = "schema"]
             [] r = "fetchFails" -> EnrichThrows(pj, "Failed to fetch from all IPFS gateways")
             [] r = "unparsable" -> EnrichThrows(pj, "Manifest is neither valid JSON nor YAML")
             [] OTHER -> EnrichThrows(pj, "Manifest does not declare a schema.")
  /\ UNCHANGED nonProjectVars

\* the fetchFromIPFS of the schema settles; detectProvider follows and
\* obtainGraphQLAnalysis is called
EnrichSchemaEnds(r) ==
  /\ pj.pc = "schema"
  /\ pj' = CASE r = "ok" -> [pj EXCEPT !.pc = "analysis",
                                      !.updated = WithProjectResources(pj.config)]
             [] r = "fetchFails" -> EnrichThrows(pj, "Failed to fetch from all IPFS gateways")
             [] OTHER -> EnrichThrows(pj, "Unable to determine GraphQL provider")
  /\ UNCHANGED nonProjectVars

\* analyzeProjectWithLLM settles: with a complete result, or with an error
\* (the request, the parsing of the answer, incomplete data)
EnrichAnalysisEnds(r) ==
  /\ pj.pc = "analysis"
  /\ pj' = IF r = "throws" THEN EnrichThrows(pj, "Incomplete analysis data")
           ELSE LET s == [pj EXCEPT !.updated = WithAnalysis(pj.updated)] IN
                  IF ~s.updated.introspectionSchema
                  THEN [s EXCEPT !.pc = "introspection"]
                  ELSE EnrichReturns(s, s.updated)
  /\ UNCHANGED nonProjectVars

\* fetchIntrospectionSchema settles: with a schema, with undefined, or with
\* an error that the inner catch logs
EnrichIntrospectionEnds(r) ==
  /\ pj.pc = "introspection"
  /\ LET s == [pj EXCEPT !.introspection = r,
                         !.updated.introspectionSchema = (r = "schema")]
     IN pj' = EnrichReturns(s, s.updated)
  /\ UNCHANGED nonProjectVars

\* save settles: initializeProjectConfig returns enriched, or rejects
ProjectSaveEnds(ok) ==
  /\ pj.pc = "save"
  /\ pj' = IF ok THEN [pj EXCEPT !.pc = "done", !.outcome = "resolved",
                                 !.returned = pj.enriched]
           ELSE [pj EXCEPT !.pc = "done", !.outcome = "rejected"]
  /\ UNCHANGED nonProjectVars

ProjectNext ==
  \/ ProjectCall
  \/ \E r \in {"QmA", "QmB", "", "throws"} : ProjectCidEnds(r)
  \/ ProjectLoadRejects
  \/ \E found \in BOOLEAN, stored \in LoadedConfigs(pj.cid) :
       ProjectLoadEnds(found, stored)
  \/ \E r \in {"ok", "fetchFails", "unparsable", "noSchema"} : EnrichManifestEnds(r)
  \/ \E r \in {"ok", "fetchFails", "noProvider"} : EnrichSchemaEnds(r)
  \/ \E r \in {"result", "throws"} : EnrichAnalysisEnds(r)
  \/ \E r \in {"schema", "undefined", "throws"} : EnrichIntrospectionEnds(r)
  \/ \E ok \in BOOLEAN : ProjectSaveEnds(ok)

(***************************************************************************)
(* Specifications                                                          *)
(***************************************************************************)
OthersIdle == ExecuteIdle /\ CidIdle /\ ToolIdle /\ PromptIdle /\ ProjectIdle

Init ==
  ServiceInit /\ ValidatorIdle /\ IpfsIdle /\ SecureFetchIdle /\ SchemaIdle
    /\ OthersIdle

Spec == Init /\ [][Next]_vars

InitIPFS == IpfsInit /\ ValidatorIdle /\ ServiceIdle /\ SecureFetchIdle /\ SchemaIdle
    /\ OthersIdle

SpecIPFS == InitIPFS /\ [][IpfsNext]_vars

\* the call is made, and every request that was issued settles in the end:
\* the steps of an attempt that do not settle it (the headers, the passing
\* of the 30 s) happen once, so fairness of the whole is fairness of each
SpecIPFSLive == SpecIPFS /\ WF_vars(IpfsNext)

InitValidator == ValidatorInit /\ IpfsIdle /\ ServiceIdle /\ SecureFetchIdle /\ SchemaIdle
    /\ OthersIdle

ValidatorNext == ValidateCall

SpecValidator == InitValidator /\ [][ValidatorNext]_vars

InitSecureFetch == SecureFetchInit /\ ValidatorIdle /\ IpfsIdle /\ ServiceIdle /\ SchemaIdle
    /\ OthersIdle

SpecSecureFetch == InitSecureFetch /\ [][SecureFetchNext]_vars

InitSchema ==
  SchemaInit /\ ValidatorIdle /\ IpfsIdle /\ ServiceIdle /\ SecureFetchIdle
    /\ OthersIdle

SpecSchema == InitSchema /\ [][SchemaNext]_vars

InitExecute ==
  ExecuteInit /\ ValidatorIdle /\ IpfsIdle /\ ServiceIdle /\ SecureFetchIdle
    /\ SchemaIdle /\ CidIdle /\ ToolIdle /\ PromptIdle
    /\ ProjectIdle

SpecExecute == InitExecute /\ [][ExecuteNext]_vars

InitCid ==
  CidInit /\ ValidatorIdle /\ IpfsIdle /\ ServiceIdle /\ SecureFetchIdle
    /\ SchemaIdle /\ ExecuteIdle /\ ToolIdle /\ PromptIdle
    /\ ProjectIdle

SpecCid == InitCid /\ [][CidNext]_vars

InitTool ==
  ToolInit /\ SchemaInit /\ ValidatorIdle /\ IpfsIdle /\ ServiceIdle
    /\ SecureFetchIdle /\ ExecuteIdle /\ CidIdle /\ PromptIdle
    /\ ProjectIdle

SpecTool == InitTool /\ [][ToolNext]_vars

\* one call of one of the three functions that set a timeout timer:
\* fetchJSON, secureFetch, or fetchFromIPFS with its fetchWithTimeout calls
InitTimers ==
  /\ ValidatorIdle /\ ServiceIdle /\ SchemaIdle /\ CidIdle /\ ToolIdle
  /\ PromptIdle /\ ProjectIdle
  /\ \/ ExecuteInit /\ SecureFetchIdle /\ IpfsIdle
     \/ SecureFetchInit /\ ExecuteIdle /\ IpfsIdle
     \/ IpfsInit /\ ExecuteIdle /\ SecureFetchIdle

TimersNext ==
  \/ sf.pc = "unused" /\ ipfsMain = "idle" /\ ExecuteNext
  \/ SecureFetchNext
  \/ sf.pc = "unused" /\ fj.pc = "idle" /\ IpfsNext

SpecTimers == InitTimers /\ [][TimersNext]_vars

InitPrompt ==
  PromptInit /\ ValidatorIdle /\ IpfsIdle /\ ServiceIdle /\ SecureFetchIdle
    /\ SchemaIdle /\ ExecuteIdle /\ CidIdle /\ ToolIdle /\ ProjectIdle

SpecPrompt == InitPrompt /\ [][PromptNext]_vars

InitProject ==
  ProjectInit /\ ValidatorIdle /\ IpfsIdle /\ ServiceIdle /\ SecureFetchIdle
    /\ SchemaIdle /\ ExecuteIdle /\ CidIdle /\ ToolIdle /\ PromptIdle

SpecProject == InitProject /\ [][ProjectNext]_vars

(***************************************************************************)
(* Properties of validateEndpointSecurity (SpecValidator)                  *)
(***************************************************************************)
\* an http(s) URL without credentials and without a disallowed port whose
\* hostname is a blocked literal or matches a blocked pattern
BlockedHostUrl(u) ==
  /\ ParseURL(u).ok
  /\ u.scheme \in {"http", "https"}
  /\ u.user = "" /\ u.pass = ""
  /\ ~PortNotAllowed(ParseURL(u).port)
  /\ \/ ParseURL(u).hostname \in blockedHosts
     \/ privateIpPatterns(ParseURL(u).hostname)

\* C6 as stated: for every http(s) URL without credentials and without a
\* disallowed port whose hostname is blocked, validateEndpointSecurity throws
\* when allowLocalhost is false and returns normally when it is true.
C6_BlockedHostDecidedByFlagAlone ==
  (vResult # "pending" /\ BlockedHostUrl(vEndpoint))
    => (vResult = "OK" <=> vAllowLocalhost)

\* C6 amended: the same, for URLs of at most 2048 characters after trimming
\* (a longer URL is rejected as too long whatever the flag).
C6_BlockedHostDecidedByFlag ==
  (vResult # "pending" /\ BlockedHostUrl(vEndpoint)
     /\ vEndpoint.len <= MaxUrlLength)
    => (vResult = "OK" <=> vAllowLocalhost)

\* C6 witness: a URL on a private address was validated with allowLocalhost
\* true and accepted
C6_Witness ==
  /\ BlockedHostUrl(vEndpoint)
  /\ vEndpoint.host = HostTen
  /\ vAllowLocalhost
  /\ vResult = "OK"

\* C7: every URL that embeds a user name or a password is rejected by
\* validateEndpointSecurity, whatever the value of allowLocalhost.
C7_CredentialsAlwaysRejected ==
  (vResult # "pending" /\ vEndpoint.kind = "url"
     /\ (vEndpoint.user # "" \/ vEndpoint.pass # ""))
    => vResult # "OK"

\* C7 witness: a URL with a user name only, otherwise acceptable, was
\* rejected for its credentials with allowLocalhost true
C7_Witness ==
  /\ vEndpoint.kind = "url"
  /\ vEndpoint.user # "" /\ vEndpoint.pass = ""
  /\ vAllowLocalhost
  /\ vResult = "URL should not contain credentials"

(***************************************************************************)
(* Properties of fetchFromIPFS (SpecIPFS)                                  *)
(***************************************************************************)
FirstSettled == settleOrder[1]

\* C8 as stated: whatever the order of completion, if some gateway answered
\* 2xx with a body then a settled fetchFromIPFS has resolved with the body of
\* such a gateway, and fetchFromIPFS rejects only when every attempt failed.
C8_AnySuccessWins ==
  /\ (ipfsMain \in {"resolved", "rejected"}
        /\ \E i \in Gateways : attempt[i].state = "fulfilled")
       => /\ ipfsMain = "resolved"
          /\ \E j \in Gateways : /\ attempt[j].state = "fulfilled"
                                  /\ ipfsResult = [kind |-> "body", body |-> attempt[j].body]
  /\ ipfsMain = "rejected" => \A i \in Gateways : attempt[i].state = "rejected"

\* C9: when the first attempt to settle is a success, fetchFromIPFS has
\* resolved with that gateway's body, while other attempts are outstanding
\* and after they settle; an attempt is aborted by its own timer only.
C9_FirstSettledSuccessReturns ==
  /\ (settleOrder # <<>> /\ attempt[FirstSettled].state = "fulfilled")
       => /\ ipfsMain = "resolved"
          /\ ipfsResult = [kind |-> "body", body |-> gatewayPool[FirstSettled].url]
  /\ \A i \in Gateways :
       attempt[i].reason.text = "This operation was aborted"
         => attempt[i].timer = "fired"

\* C9 witness: fetchFromIPFS has resolved with the first gateway's body
\* while another attempt is still waiting for its response
C9_Witness ==
  /\ ipfsMain = "resolved"
  /\ settleOrder # <<>>
  /\ ipfsResult = [kind |-> "body", body |-> gatewayPool[FirstSettled].url]
  /\ \E i \in Gateways : attempt[i].state = "fetching" /\ attempt[i].timer = "armed"

\* C10: fetchFromIPFS rejects only after every attempt has settled; when
\* every attempt of a non-empty pool has failed it rejects, and the error
\* lists every gateway's URL with that gateway's own failure reason.
C10_AllFailedAggregated ==
  /\ ipfsMain = "rejected" => \A i \in Gateways : Settled(attempt[i])
  /\ (Gateways # {} /\ \A i \in Gateways : attempt[i].state = "rejected")
       => /\ ipfsMain = "rejected"
          /\ ipfsResult.kind = "error"
          /\ \A i \in Gateways :
               \E k \in 1..Len(ipfsResult.summary) :
                 ipfsResult.summary[k] =
                   [url |-> gatewayPool[i].url, error |-> attempt[i].reason]

\* C10 witness: three gateways failed, each for a different reason, and the
\* call rejected
C10_Witness ==
  /\ ipfsMain = "rejected"
  /\ Len(gatewayPool) >= 3
  /\ \A i \in Gateways : attempt[i].state = "rejected"
  /\ \A i, j \in Gateways : i # j => attempt[i].reason # attempt[j].reason

\* C28 as stated: once FETCH_TIMEOUT_MS have passed since an attempt's fetch
\* call, the attempt has settled, whether the gateway stalled before the
\* response headers or during the body.
C28_AttemptBoundedByTimer ==
  \A i \in 1..Len(attempt) : attempt[i].elapsed => Settled(attempt[i])

RequestOf(gateway) == [url |-> gateway.url, method |-> gateway.method]

\* C29: once fetchFromIPFS has started, a malformed IPFS_CONFIG has raised
\* no error and the requests went to exactly the built-in pool, one POST and
\* one GET; an IPFS_CONFIG that parsed to a pool gave exactly one request per
\* gateway of that pool, with the gateway's method.
C29_PoolSelection ==
  ipfsMain # "idle" =>
    /\ ipfsConfig.kind = "malformed" =>
         /\ ipfsRequests = << RequestOf(IPFS_GATEWAY_POOL[1]),
                              RequestOf(IPFS_GATEWAY_POOL[2]) >>
         /\ ipfsRequests[1].method = "POST" /\ ipfsRequests[2].method = "GET"
         /\ Len(attempt) = 2
    /\ ipfsConfig.kind = "array" =>
         /\ Len(ipfsRequests) = Len(ipfsConfig.pool)
         /\ \A i \in 1..Len(ipfsConfig.pool) :
              ipfsRequests[i] = RequestOf(ipfsConfig.pool[i])

\* C29 witness: a malformed IPFS_CONFIG, and the call ran to its end on the
\* two built-in gateways
C29_Witness ==
  /\ ipfsConfig.kind = "malformed"
  /\ Len(ipfsRequests) = 2
  /\ ipfsMain \in {"resolved", "rejected"}

\* C36 as stated: for every pool parsed from IPFS_CONFIG, the empty array
\* included, fetchFromIPFS resolves or rejects in the end, given that every
\* request issued settles.
C36_FetchFromIPFSSettles == <>(ipfsMain \in {"resolved", "rejected"})

\* C37 as stated: in the error fetchFromIPFS throws, every gateway that
\* failed is listed exactly once and the count reported is the size of the
\* pool.
C37_EachGatewayListedOnce ==
  ipfsMain = "rejected" =>
    /\ ipfsResult.tried = Len(gatewayPool)
    /\ \A i \in Gateways :
         attempt[i].state = "rejected" =>
           Cardinality({k \in 1..Len(ipfsResult.summary) :
                          ipfsResult.summary[k].url = gatewayPool[i].url}) = 1

(***************************************************************************)
(* Further properties of validateEndpointSecurity (SpecValidator)          *)
(***************************************************************************)
\* a URL that passes every check but the port check
PassesAllButPort(u, flag) ==
  /\ u.kind = "url" /\ u.len <= MaxUrlLength
  /\ ParseURL(u).ok
  /\ u.scheme \in {"http", "https"}
  /\ ~BlockedHostCheck(ParseURL(u).hostname, flag)
  /\ ~PrivateIpCheck(ParseURL(u).hostname, flag)
  /\ u.user = "" /\ u.pass = ""

\* C31: for a URL that passes all other checks, validateEndpointSecurity
\* throws, with 'Port not allowed', exactly when the URL has an explicit port
\* below 1024 outside {80, 443, 8080, 8443}; ports of 1024 and more and URLs
\* without a port are accepted, whatever allowLocalhost is.
C31_LowPortsRejected ==
  (vResult # "pending" /\ PassesAllButPort(vEndpoint, vAllowLocalhost))
    => IF vEndpoint.port # 0 /\ vEndpoint.port < 1024
          /\ vEndpoint.port \notin {80, 443, 8080, 8443}
       THEN vResult = "Port not allowed"
       ELSE vResult = "OK"

\* C31 witness: port 1024 was accepted with allowLocalhost false
C31_Witness ==
  /\ vResult = "OK"
  /\ ~vAllowLocalhost
  /\ vEndpoint.port = 1024

\* C34 as stated: with allowLocalhost false, a URL whose host is a bracketed
\* IPv6 literal of a blocked range (::1, ::, fc00::/7, fe80::/10) is rejected.
C34_BracketedIPv6Rejected ==
  (vResult # "pending" /\ ~vAllowLocalhost /\ vEndpoint.kind = "url"
     /\ vEndpoint.host \in {HostV6Loopback, HostV6Unspecified, HostV6LinkLocal,
                            HostV6LinkLocalUpper, HostV6Ula})
    => vResult # "OK"

\* the checks in the order claimed, each stated on its own; a check that
\* needs the parsed URL is violated only by a text that parses
CheckMessages ==
  << "Invalid endpoint format", "Endpoint URL too long", "Invalid endpoint URL",
     "Only HTTP/HTTPS protocols are allowed",
     "Access to local/internal hosts is forbidden",
     "Access to private IP ranges is forbidden", "Port not allowed",
     "URL should not contain credentials" >>

Violates(k, u, flag) ==
  CASE k = 1 -> u.kind = "empty"
    [] k = 2 -> u.len > MaxUrlLength
    [] k = 3 -> ~ParseURL(u).ok
    [] k = 4 -> ParseURL(u).ok /\ u.scheme \notin {"http", "https"}
    [] k = 5 -> ParseURL(u).ok /\ ~flag /\ ParseURL(u).hostname \in blockedHosts
    [] k = 6 -> ParseURL(u).ok /\ ~flag /\ privateIpPatterns(ParseURL(u).hostname)
    [] k = 7 -> ParseURL(u).ok /\ ParseURL(u).port # 0
                /\ ParseURL(u).port < 1024
                /\ ParseURL(u).port \notin {80, 443, 8080, 8443}
    [] OTHER -> ParseURL(u).ok /\ (u.user # "" \/ u.pass # "")

ViolatedChecks(u, flag) == {k \in 1..Len(CheckMessages) : Violates(k, u, flag)}

\* C35: the error raised is that of the earliest violated check in the
\* order non-empty, length, parse, scheme, blocked host, private-IP pattern,
\* port, credentials; without a violated check the method returns.
C35_EarliestViolatedCheckRaised ==
  vResult # "pending" =>
    LET violated == ViolatedChecks(vEndpoint, vAllowLocalhost) IN
      IF violated = {} THEN vResult = "OK"
      ELSE vResult = CheckMessages[CHOOSE k \in violated :
                                     \A j \in violated : k <= j]

\* C35 witness: a URL with a bad scheme, a blocked host, a low port and
\* credentials was rejected for its scheme
C35_Witness ==
  /\ vResult = "Only HTTP/HTTPS protocols are allowed"
  /\ Cardinality(ViolatedChecks(vEndpoint, vAllowLocalhost)) >= 4

(***************************************************************************)
(* Properties of GraphQLService and initializeProjectConfig (Spec)         *)
(***************************************************************************)
\* C1: every HTTP request sent during fetchCidFromEndpoint, the first of a
\* secureFetch call and every one that follows a redirect response, targets
\* a URL that validateEndpointSecurity had accepted before it was sent.
C1_EveryCidRequestValidated ==
  lastRequest.op = "fetchCid" => lastRequest.accepted

\* C2: when validateEndpointSecurity rejects the endpoint, fetchCidFromEndpoint
\* rejects with that error (it does not return '') and sends no request.
C2_EndpointViolationRethrown ==
  LET v == validateEndpointSecurity(endpoint, allowLocalhost) IN
    v # "OK" =>
      /\ lastRequest.op # "fetchCid"
      /\ cidOutcome \in {"cid", "empty", "throws"}
           => (cidOutcome = "throws" /\ cidError = v)

\* C3: when a redirect target fails security validation during CID discovery,
\* fetchCidFromEndpoint sends no further request (none for shape B either)
\* and rejects with the security error instead of returning a value.
C3_RedirectViolationFatal ==
  /\ lastRequest.op = "fetchCid" => ~lastRequest.afterViolation
  /\ (violation # "" /\ cidOutcome \in {"cid", "empty", "throws"})
       => (cidOutcome = "throws" /\ cidError = violation)

\* C4: initializeProjectConfig sends no HTTP request to a host of the blocked
\* literal set or of a blocked private/link-local range, in any of its steps.
C4_InitNeverRequestsBlockedHost ==
  (caller = "initializeProjectConfig" /\ lastRequest.op # "none")
    => LET hostname == ParseURL(lastRequest.url).hostname IN
         /\ hostname \notin blockedHosts
         /\ ~privateIpPatterns(hostname)

\* C5: every request that execute or fetchIntrospectionSchema sends to
\* config.endpoint is preceded by a successful validateEndpointSecurity of
\* that endpoint.
C5_EndpointValidatedBeforeUse ==
  (lastRequest.op \in {"execute", "introspection"} /\ lastRequest.by = "fetchJSON")
    => lastRequest.accepted

(***************************************************************************)
(* Properties of one secureFetch call (SpecSecureFetch)                    *)
(***************************************************************************)
RECURSIVE SumSeq(_)
SumSeq(q) == IF q = <<>> THEN 0 ELSE Head(q) + SumSeq(Tail(q))

SecureFetchEnded == sf.pc \in {"returned", "rejected"}

\* errors that have nothing to do with the redirect chain: the body cap,
\* a response without a body, the timer, the network
BodyOrTransportErrors ==
  {"Response too large", "Unable to read response body",
   "This operation was aborted", "fetch failed"}

\* C11 as stated: a secureFetch call that has met more than maxRedirects
\* redirect responses has failed with the too-many-redirects error, and a
\* call that met exactly maxRedirects of them followed by a 2xx response whose
\* body was read has returned that body.
C11_RedirectChainLimit ==
  SecureFetchEnded =>
    /\ sf.redirectResponses > sf.maxRedirects
         => (sf.pc = "rejected" /\ sf.error = "Too many redirects")
    /\ (sf.redirectResponses = sf.maxRedirects /\ Ok(sf.status)
          /\ sf.error \notin BodyOrTransportErrors)
         => sf.pc = "returned"

\* C12 as stated: one secureFetch call sends at most maxRedirects + 1
\* requests, and never has two of them in flight.
C12_AtMostMaxRedirectsPlusOneRequests ==
  /\ sf.requests <= sf.maxRedirects + 1
  /\ sf.inFlight <= 1

\* C13: the chunks kept never total more than maxContentLength; a body whose
\* streamed size exceeds maxContentLength makes the call reject with the
\* reader cancelled, whatever Content-Length said; a call that returns has
\* read at most maxContentLength.
C13_StreamedBodyCapped ==
  /\ SumSeq(sf.chunks) <= maxContentLength
  /\ sf.receivedLength > maxContentLength
       => /\ sf.pc = "rejected"
          /\ sf.error = "Response too large"
          /\ sf.readerCancelled
  /\ sf.pc = "returned" => sf.receivedLength <= maxContentLength

\* C13 witness: a body that passed the Content-Length check crossed the cap
\* on a later chunk; the chunks read before it are all that is kept
C13_Witness ==
  /\ sf.pc = "rejected"
  /\ sf.readerCancelled
  /\ sf.receivedLength > maxContentLength
  /\ Len(sf.chunks) >= 2
  /\ SumSeq(sf.chunks) < sf.receivedLength

\* C14: a secureFetch call arms one timer and no more; while the call awaits
\* a hop's response or a chunk the timer is armed; once it has fired the
\* call has rejected, nothing is in flight and no request was sent since.
C14_OneTimerAbortsTheCall ==
  /\ sf.timersArmed <= 1
  /\ sf.pc \in {"fetch", "read"} => (sf.timersArmed = 1 /\ sf.timer = "armed")
  /\ sf.timer = "fired"
       => /\ sf.pc = "rejected"
          /\ sf.inFlight = 0
          /\ sf.requests = sf.requestsWhenFired

\* C14 witness: the timer armed at the start fired during the body read of
\* the response that followed a redirect hop
C14_Witness ==
  /\ sf.timer = "fired"
  /\ sf.timersArmed = 1
  /\ sf.redirectCount >= 1
  /\ sf.receivedLength >= 1
  /\ sf.pc = "rejected"

(***************************************************************************)
(* Properties of schemaCache, fetchSchema and validate (SpecSchema)        *)
(***************************************************************************)
Started(i) == calls[i].op # "none"

Done(i) == calls[i].pc = "done"

\* neither call had settled when the other was started
Overlap(i, j) ==
  /\ i # j /\ Started(i) /\ Started(j)
  /\ i \notin calls[j].before /\ j \notin calls[i].before

\* only fetchSchema was called, one call after another, and no call failed
FetchSchemaInSuccession ==
  /\ \A i \in CallIds : calls[i].op \in {"none", "fetchSchema"}
  /\ \A i, j \in CallIds : ~Overlap(i, j)
  /\ \A i \in CallIds : calls[i].outcome # "rejected"
  /\ \E i \in CallIds : Done(i)

IntrospectionRequests == Cardinality({i \in CallIds : calls[i].sentRequest})

\* a fetchSchema call made while the cache holds a schema sends no request,
\* writes nothing, and returns the object the cache held
CachedSchemaReturned ==
  \A j \in CallIds :
    (calls[j].op = "fetchSchema" /\ calls[j].sawCache # NoSchema)
      => /\ ~calls[j].sentRequest /\ ~calls[j].wrote
         /\ Done(j) /\ calls[j].result = calls[j].sawCache

SameSchemaReturned ==
  \A i, j \in CallIds :
    (Done(i) /\ Done(j)) => calls[i].result = calls[j].result

\* C15 as stated: a fetchSchema call made after one has succeeded returns the
\* cached object without a request, and fetchSchema calls made one after
\* another return the same object and cause exactly one introspection request.
C15_SuccessiveCallsOneRequest ==
  /\ CachedSchemaReturned
  /\ FetchSchemaInSuccession
       => (SameSchemaReturned /\ IntrospectionRequests = 1)

\* C15 amended: the same, with exactly one request when the config carries no
\* introspectionSchema and none at all when it does.
C15_SuccessiveCallsAtMostOneRequest ==
  /\ CachedSchemaReturned
  /\ FetchSchemaInSuccession
       => /\ SameSchemaReturned
          /\ IntrospectionRequests = IF introspectionSchema = "none" THEN 1 ELSE 0

\* C15 witness: three fetchSchema calls made one after another on an
\* instance without introspectionSchema; the first sent the only request
C15_Witness ==
  /\ introspectionSchema = "none"
  /\ FetchSchemaInSuccession
  /\ \A i \in CallIds : Done(i) /\ calls[i].result = schemaCache
  /\ schemaCache # NoSchema
  /\ IntrospectionRequests = 1

\* C16 as stated: once schemaCache holds an entry, no step of any call
\* removes it or replaces its value.
C16_CacheInsertIfAbsentOnly ==
  [][schemaCache # NoSchema => schemaCache' = schemaCache]_vars

\* C16 amended: once schemaCache holds an entry no step removes it, and its
\* value is replaced only by a fetchSchema call that had found the cache
\* empty before the entry was stored and builds its own schema afterwards.
C16_CacheNeverEvicted ==
  [][schemaCache # NoSchema =>
       /\ schemaCache' # NoSchema
       /\ schemaCache' # schemaCache =>
            \E i \in CallIds :
              /\ calls[i].pc = "await" /\ calls[i].sawCache = NoSchema
              /\ calls'[i].pc = "done" /\ calls'[i].wrote
              /\ schemaCache' \notin {calls[j].result : j \in CallIds}]_vars

\* C16 witness: with the entry present, a fetchSchema call that hit it, an
\* execute call and a fetchCidFromEndpoint call have all completed
C16_Witness ==
  /\ schemaCache # NoSchema
  /\ \E i, j, k \in CallIds :
       /\ calls[i].op = "fetchSchema" /\ Done(i) /\ calls[i].wrote
       /\ calls[j].op = "fetchSchema" /\ Done(j) /\ calls[j].sawCache = schemaCache
       /\ calls[k].op \in {"execute", "fetchCidFromEndpoint"} /\ Done(k)
       /\ i \in calls[k].before

\* the calls that stored a schema, in the order they completed
RECURSIVE LastWriter(_)
LastWriter(order) ==
  IF order = <<>> THEN 0
  ELSE IF calls[order[Len(order)]].wrote THEN order[Len(order)]
  ELSE LastWriter(SubSeq(order, 1, Len(order) - 1))

\* C17: on an instance without introspectionSchema every call that reaches
\* fetchSchema while the cache is empty sends its own introspection request,
\* whatever other calls are in flight; the cache holds the schema of the call
\* that stored last.
C17_NoDeduplicationLastWriterWins ==
  /\ \A i \in CallIds :
       (calls[i].readCache /\ calls[i].sawCache = NoSchema
          /\ introspectionSchema = "none") => calls[i].sentRequest
  /\ LastWriter(completed) # 0
       => schemaCache = calls[LastWriter(completed)].result

\* C17 witness: two fetchSchema calls were in flight together, each sent a
\* request, both completed, and the cache holds the later one's schema
C17_Witness ==
  \E i, j \in CallIds :
    /\ Overlap(i, j)
    /\ calls[i].op = "fetchSchema" /\ calls[j].op = "fetchSchema"
    /\ calls[i].sentRequest /\ calls[j].sentRequest
    /\ calls[i].wrote /\ calls[j].wrote
    /\ completed = <<i, j>>
    /\ schemaCache = calls[j].result /\ schemaCache # calls[i].result

\* C18: a fetchSchema call that fails rejects without having written the
\* cache: the cache is empty as long as no call has built a schema and a
\* stored schema survives every failure; a fetchSchema call made after a
\* failed introspection request while the cache is empty sends a new request.
C18_FailureNotCached ==
  /\ \A i \in CallIds :
       (calls[i].op = "fetchSchema" /\ calls[i].schemaFailed)
         => (calls[i].outcome = "rejected" /\ ~calls[i].wrote)
  /\ (\A i \in CallIds : ~calls[i].wrote) => schemaCache = NoSchema
  /\ (\E i \in CallIds : calls[i].wrote) => schemaCache # NoSchema
  /\ \A i, j \in CallIds :
       (calls[i].schemaFailed /\ calls[i].sentRequest /\ i \in calls[j].before
          /\ calls[j].op = "fetchSchema" /\ calls[j].sawCache = NoSchema)
         => calls[j].sentRequest

\* C18 witness: a fetchSchema call failed, the next one found the cache
\* empty, sent a new request and succeeded
C18_Witness ==
  \E i, j \in CallIds :
    /\ calls[i].op = "fetchSchema" /\ calls[i].outcome = "rejected"
    /\ calls[i].sentRequest
    /\ calls[j].op = "fetchSchema" /\ calls[j].before = {i}
    /\ calls[j].sentRequest /\ calls[j].outcome = "schema"
    /\ schemaCache = calls[j].result

\* C19: validate on a query that does not parse returns exactly one message
\* and fetches no schema: no request, schemaCache neither read nor written.
C19_SyntaxErrorSkipsSchema ==
  \A i \in CallIds :
    (calls[i].op = "validate" /\ ~calls[i].parses)
      => /\ Done(i) /\ calls[i].outcome = "issues" /\ calls[i].issues = 1
         /\ ~calls[i].readCache /\ ~calls[i].wrote /\ ~calls[i].sentRequest

\* C19 witness: validate returned the syntax error on an instance whose
\* cache is still empty and which has sent no request
C19_Witness ==
  /\ schemaCache = NoSchema
  /\ IntrospectionRequests = 0
  /\ \E i \in CallIds :
       calls[i].op = "validate" /\ ~calls[i].parses /\ calls[i].issues = 1

\* C20: validate never rejects; for a query that parses, a failure to obtain
\* the schema is returned as exactly one message.
C20_ValidateNeverRejects ==
  \A i \in CallIds :
    calls[i].op = "validate"
      => /\ calls[i].outcome \in {"none", "issues"}
         /\ Done(i) => calls[i].outcome = "issues"
         /\ (Done(i) /\ calls[i].schemaFailed) => calls[i].issues = 1

\* C20 witness: validate of a query that parses sent the introspection
\* request, the schema could not be obtained, and one message came back
C20_Witness ==
  \E i \in CallIds :
    /\ calls[i].op = "validate" /\ calls[i].parses
    /\ calls[i].sentRequest /\ calls[i].schemaFailed
    /\ Done(i) /\ calls[i].outcome = "issues" /\ calls[i].issues = 1

(***************************************************************************)
(* Properties of CID discovery and of request headers (Spec)               *)
(***************************************************************************)
\* C23: shape B is queried only after the shape A attempt has ended without
\* a CID, and when shape A yields a CID no shape B request is sent.
C23_ShapeBOnlyAfterShapeA ==
  /\ tried.B # "untried" => tried.A = "none"
  /\ (lastRequest.op = "fetchCid" /\ lastRequest.shape = "B") => tried.A = "none"
  /\ tried.A = "cid" => (tried.B = "untried" /\ cidOutcome = "cid")

\* C23 witness: shape A ended without a CID, shape B was queried and gave one
C23_Witness ==
  /\ tried = [A |-> "none", B |-> "cid"]
  /\ cidOutcome = "cid"
  /\ lastRequest.shape = "B"

\* C25: when the endpoint passes validation and both shapes have ended
\* without a CID, fetchCidFromEndpoint has resolved with the empty string.
C25_BothShapesFailReturnsEmpty ==
  (validateEndpointSecurity(endpoint, allowLocalhost) = "OK"
     /\ tried = [A |-> "none", B |-> "none"])
    => (cidOutcome = "empty" /\ cidError = "")

\* C25 witness: both shapes were queried at an accepted endpoint, neither
\* gave a CID, and the empty string came back
C25_Witness ==
  /\ validateEndpointSecurity(endpoint, allowLocalhost) = "OK"
  /\ tried = [A |-> "none", B |-> "none"]
  /\ lastRequest.op = "fetchCid" /\ lastRequest.shape = "B"
  /\ callRequests >= 2
  /\ cidOutcome = "empty"

\* C30 as stated: every request GraphQLService sends carries Content-Type
\* application/json and the service's fixed User-Agent, and Authorization
\* equal to config.authorization exactly when it is configured.
C30_FixedHeadersOnEveryRequest ==
  lastRequest.op # "none"
    => /\ lastRequest.headers.contentType = "application/json"
       /\ lastRequest.headers.userAgent = "SubQuery-MCP-Service/1.0"
       /\ lastRequest.headers.authorization = authorization

\* C32: once a response with a redirect status and no Location header has
\* arrived, the secureFetch call never returns a result and sends no further
\* request; when it has ended, it has rejected.
C32_RedirectWithoutLocationFatal ==
  sf.requestsAtBareRedirect > 0
    => /\ sf.pc \in {"read", "rejected"}
       /\ sf.requests = sf.requestsAtBareRedirect
       /\ sf.inFlight = 0

\* C32 witness: after one redirect hop a 3xx response without Location came,
\* its body was read to the end, and the call rejected for the status
C32_Witness ==
  /\ sf.requestsAtBareRedirect > 0
  /\ sf.redirectCount >= 1
  /\ sf.pc = "rejected"
  /\ sf.error = "Request failed"
  /\ Len(sf.chunks) >= 1

(***************************************************************************)
(* Properties of buildSystemPrompt (SpecPrompt)                            *)
(***************************************************************************)
HasPiece(text, piece) == \E i \in 1..Len(text) : text[i] = piece

HasVerboseHeading(text) == HasPiece(text, "VERBOSE OUTPUT (Level ")

HasLevelHeading(text, level) ==
  \E i \in 1..(Len(text) - 2) :
    /\ text[i] = "VERBOSE OUTPUT (Level "
    /\ text[i + 1] = level
    /\ text[i + 2] = "):"

\* C33: the prompt has no VERBOSE OUTPUT section for verbose 0; for verbose
\* of 1 and more it has the heading with that level and the instruction to
\* include the exact query; the instructions to report tool call details
\* and to explain the query strategy are there exactly for verbose >= 2.
C33_VerboseSectionByLevel ==
  prompt.pc = "built" =>
    /\ prompt.verbose = 0 => ~HasVerboseHeading(prompt.text)
    /\ prompt.verbose >= 1 =>
         /\ HasLevelHeading(prompt.text, ToString(prompt.verbose))
         /\ HasPiece(prompt.text, IncludeQuery)
    /\ HasPiece(prompt.text, ToolCallDetails) <=> prompt.verbose >= 2
    /\ HasPiece(prompt.text, ExplainStrategy) <=> prompt.verbose >= 2

\* C33 witness: the prompt for verbose 1 has the heading of level 1 and the
\* query instruction, and neither instruction of level 2
C33_Witness ==
  /\ prompt.pc = "built"
  /\ prompt.verbose = 1
  /\ HasLevelHeading(prompt.text, "1")
  /\ HasPiece(prompt.text, IncludeQuery)
  /\ ~HasPiece(prompt.text, ToolCallDetails)

(***************************************************************************)
(* Properties of initializeProjectConfig and enrichGraphQLConfig           *)
(* (SpecProject)                                                           *)
(***************************************************************************)
\* C38: enrichGraphQLConfig never rejects; when the manifest fetch, the
\* manifest parsing, the schema resolution, the provider detection or the
\* LLM analysis failed it has returned the input config with nothing changed
\* but lastAnalysisError, set to the failure message; when only the
\* introspection fetch failed the analysis result is in place and
\* lastAnalysisError is absent.
C38_EnrichNeverRejects ==
  /\ (pj.pc = "done" /\ pj.outcome = "rejected")
       => (Len(pj.log) < 3 \/ pj.log[Len(pj.log)] = "save")
  /\ (pj.pc = "save" /\ pj.failure # "")
       => pj.enriched = [pj.config EXCEPT !.lastAnalysisError = pj.failure]
  /\ (pj.pc = "save" /\ pj.failure = "" /\ pj.introspection = "throws")
       => /\ pj.enriched.domainName = "Analysed"
          /\ pj.enriched.domainCapabilities = 1
          /\ pj.enriched.lastAnalyzedAt
          /\ pj.enriched.lastAnalysisError = ""
          /\ ~pj.enriched.introspectionSchema

\* C38 witness: the provider detection failed after the schema had been
\* fetched, for a stored config that carried an earlier error
C38_Witness ==
  /\ pj.pc = "save"
  /\ pj.failure = "Unable to determine GraphQL provider"
  /\ pj.config.lastAnalysisError = "earlier failure"
  /\ pj.enriched.lastAnalysisError = pj.failure
  /\ pj.enriched.schemaContent = ""

\* C39: a call that resolved has called fetchCidFromEndpoint, load,
\* enrichGraphQLConfig and save, in this order and once each; save was given
\* the config that is returned, lastAnalysisError included; load is not
\* called while the CID discovery is pending.
C39_InitializeCallOrder ==
  /\ pj.outcome = "resolved"
       => /\ pj.log = <<"fetchCidFromEndpoint", "load", "enrichGraphQLConfig", "save">>
          /\ pj.saved = pj.returned
          /\ pj.returned = pj.enriched
  /\ pj.pc = "cid" => pj.log = <<"fetchCidFromEndpoint">>
  /\ \A i \in 1..Len(pj.log) :
       pj.log[i] = <<"fetchCidFromEndpoint", "load", "enrichGraphQLConfig", "save">>[i]

\* C39 witness: the call resolved with a config that carries
\* lastAnalysisError, and that config is the one saved
C39_Witness ==
  /\ pj.outcome = "resolved"
  /\ pj.returned.lastAnalysisError = "Incomplete analysis data"
  /\ pj.saved = pj.returned
  /\ Len(pj.log) = 4

(***************************************************************************)
(* Properties of the timeout timers (SpecTimers)                           *)
(***************************************************************************)
\* C40: once a call of fetchJSON, of secureFetch or of fetchWithTimeout has
\* settled, by a return, by a thrown error or by the abort, the timer it
\* created is not armed any more: it was cleared or it has fired.
C40_NoTimerArmedAfterSettle ==
  /\ fj.pc \in {"resolved", "rejected"} => fj.timer \in {"cleared", "fired"}
  /\ sf.pc \in {"returned", "rejected"} => sf.timer \in {"cleared", "fired"}
  /\ \A i \in 1..Len(attempt) :
       attempt[i].state # "fetching" => attempt[i].timer \in {"cleared", "fired"}

\* C40 witness: a secureFetch call threw while reading a body and its timer
\* was cleared
C40_Witness ==
  /\ sf.pc = "rejected"
  /\ sf.error = "Response too large"
  /\ sf.receivedLength > 0
  /\ sf.timer = "cleared"

(***************************************************************************)
(* Properties of GraphQLService.execute (SpecExecute)                      *)
(***************************************************************************)
\* the response body has been read
TextArrived == fj.text # NoText

\* C21: when a 2xx response with a JSON body has arrived, execute has
\* resolved with the parsed body as it is, errors array included: GraphQL
\* errors never make it reject.
C21_ExecuteReturnsParsedBody ==
  (TextArrived /\ Ok(fj.status) /\ JSONParse(fj.text).ok)
    => /\ fj.pc = "resolved"
       /\ fj.result.kind = "value"
       /\ fj.result.value = [data |-> fj.text.data, errors |-> fj.text.errors]

\* C21 witness: a 2xx body with errors and null data was returned as it is
C21_Witness ==
  /\ fj.pc = "resolved"
  /\ Ok(fj.status)
  /\ fj.text.syntax = "json" /\ fj.text.data = "null"
  /\ fj.text.errors = MaxGraphQLErrors
  /\ fj.result.value.errors = MaxGraphQLErrors

\* C22 as stated: execute has rejected whenever the status is not 2xx, the
\* body that arrived is not JSON, or the timer has fired.
C22_ExecuteRejectsTransportFailures ==
  /\ (TextArrived /\ ~Ok(fj.status)) => fj.pc = "rejected"
  /\ (TextArrived /\ ~JSONParse(fj.text).ok) => fj.pc = "rejected"
  /\ fj.timer = "fired" => fj.pc = "rejected"

(***************************************************************************)
(* Properties of the CID of a shape A response (SpecCid)                   *)
(***************************************************************************)
\* the value of the member inserted last
LastInserted(mapping) == mapping[Len(mapping)][2]

\* C24 as stated: for a deployments mapping whose last inserted value is a
\* non-empty string, the CID returned is that value with a leading 'ipfs://'
\* removed when present, and otherwise unchanged.
C24_LastInsertedValueStripped ==
  (cx.pc = "done" /\ Len(cx.deployments) > 0
     /\ LastInserted(cx.deployments) # <<>>)
    => /\ cx.result.kind = "cid"
       /\ cx.result.cid =
            IF LastInserted(cx.deployments)[1] = "ipfs://"
            THEN Tail(LastInserted(cx.deployments))
            ELSE LastInserted(cx.deployments)

(***************************************************************************)
(* Properties of the validate-and-execute tool (SpecTool)                  *)
(***************************************************************************)
\* C26 as stated: when the tool has returned for a query that passed the
\* basic checks and parses, and the schema could not be fetched during
\* validation, the query was passed to graphQLService.execute.
C26_SchemaFailureDoesNotBlock ==
  (tool.pc = "returned" /\ ~tool.query.empty /\ BasicErrors(tool.query) = 0
     /\ tool.query.parses /\ calls[ToolValidateCall].schemaFailed)
    => tool.executeCalls = 1

\* C27: the tool calls graphQLService.execute at most once per invocation,
\* and only for a cleaned query that is not empty, has balanced braces and
\* parentheses and parses, after graphQLService.validate has returned no
\* issue.
C27_ExecuteOnlyAfterValidation ==
  /\ tool.executeCalls <= 1
  /\ tool.executeCalls = 1 =>
       /\ ~tool.query.empty
       /\ tool.query.openBraces = tool.query.closeBraces
       /\ tool.query.openParens = tool.query.closeParens
       /\ tool.query.parses
       /\ calls[ToolValidateCall].op = "validate"
       /\ calls[ToolValidateCall].pc = "done"
       /\ calls[ToolValidateCall].outcome = "issues"
       /\ calls[ToolValidateCall].issues = 0
  /\ tool.report \in {"Query execution failed", "Query executed successfully",
                      "Unexpected response format", "Error executing query"}
       => tool.executeCalls = 1

\* C27 witness: a query with braces and parentheses was validated against a
\* fetched schema, executed once, and the tool returned the data
C27_Witness ==
  /\ tool.pc = "returned"
  /\ tool.executeCalls = 1
  /\ tool.query.openBraces > 0 /\ tool.query.openParens > 0
  /\ calls[ToolValidateCall].sentRequest
  /\ tool.report = "Query executed successfully"

====
